---- MODULE Spec2Model ----
(***************************************************************************)
(* git-publish: the publish orchestration of src/index.ts.                 *)
(*                                                                         *)
(* Two publish processes (distinct process ids) run on one machine against *)
(* the same local repository and the same remote target branch.  Each      *)
(* process runs the preflight checks and then walks the stages of the      *)
(* publish task: worktree creation, branch resolution, packing, commit,    *)
(* push, cleanup (finally) and the top-level catch.  The remote is a       *)
(* commit graph with one ref, the target branch.                           *)
(*                                                                         *)
(* The utility functions detectPackageManager, extractTarball and          *)
(* packPackage are state machines of their own, each with its own          *)
(* specification over its inputs, and so is the publish task at the level  *)
(* of its awaited operations.                                              *)
(***************************************************************************)
EXTENDS Integers, Sequences, FiniteSets, TLC

\* ---------------------------------------------------------------- bounds
\* wall-clock values Date.now() can return while the processes start
MaxTime == 2
\* number of source revisions the user commits (HEAD content versions)
MaxVersion == 2
\* commits already on the remote target branch before the first run
MaxInitCommits == 1

Times == 1..MaxTime

\* the publish processes; the value is the process id
Runs == {1, 2}

\* every run adds at most one commit
MaxCommits == MaxInitCommits + Cardinality(Runs)

NoCommit == 0

VARIABLES
    pc,             \* position of each process in the publish task
    fresh,          \* argv.flags.fresh
    dry,            \* argv.flags.dry
    argv,           \* argv.flags.force and argv.flags.branch ("" when absent)
    env,            \* what the process finds: repository, HEAD, manifest, remote
    publishBranch,  \* let publishBranch ("" until it is derived)
    output,         \* what setTitle and setOutput were given (<<>>: nothing)
    userHead,       \* what HEAD of the user's working directory points to
    fetchAttempts,  \* number of git fetch subprocesses the run has spawned
    stamp,          \* Date.now() read when the temporary names are built
    orphan,         \* let orphan
    success,        \* let success
    commitSha,      \* let commitSha
    thrown,         \* message of the exception in flight ("none": none)
    warned,         \* console.warn('No new changes found to commit.') happened
    exitCode,       \* process exit code (-1 while running)
    stderr,         \* what the top-level catch printed
    wtHead,         \* HEAD of the run's worktree: "none", "detached", "unborn", "branch"
    wtIndex,        \* index of the run's worktree
    wtDisk,         \* files on disk in the run's worktree (without .git)
    gitWorktrees,   \* paths registered as worktrees of the local repository
    localBranches,  \* refs/heads of the local repository: name -> commit
    tmpDirs,        \* directories under os.tmpdir() created by fs.mkdir
    tarball,        \* files of the tarball in the run's pack directory
    head,           \* content version of HEAD in the user's repository
    hasHook,        \* package.json has a scripts.prepack entry
    cwdFiles,       \* files in the user's working directory
    commits,        \* the commit graph: id -> [parent, tree]
    remoteBranch,   \* remote ref of the target branch (NoCommit: absent)
    lockfiles,      \* detectPackageManager: lockfiles of cwd and its ancestors
    stopAt,         \* detectPackageManager: the ancestor the search stops at
    detected,       \* detectPackageManager: the value returned ("": not yet)
    entries,        \* extractTarball: the headers of the tarball, in order
    extracted,      \* extractTarball: number of entries the stream has passed
    packedFiles,    \* extractTarball: const files, the list returned
    destination,    \* extractTarball: entries written under destinationPath
    extractPc,      \* extractTarball: "idle", "streaming", "returned"
    packPc,         \* packPackage: the statement the call is at
    packCall,       \* packPackage: gitSubdirectory, node_modules, prepack hook
    userFiles,      \* packPackage: files of the user's directory (cwd, root)
    isolatedPack,   \* packPackage: the directory isolatedPackDirectory
    packDestination, \* packPackage: the directory packDestinationDirectory
    packError,      \* packPackage: the error in flight ("none": none)
    packResult,     \* packPackage: the tarball returned (<<>>: none)
    opIndex,        \* awaits: the operation the run starts next
    inFlight,       \* awaits: the operations started and not yet settled
    awaiting        \* awaits: the operations the run is waiting for

\* the variables of the publish task
pipelineVars ==
    <<pc, fresh, dry, argv, env, output, userHead, fetchAttempts,
      publishBranch, stamp, orphan, success, commitSha, thrown, warned,
      exitCode, stderr, wtHead, wtIndex, wtDisk, gitWorktrees,
      localBranches, tmpDirs, tarball, head, hasHook, cwdFiles, commits,
      remoteBranch>>

\* the variables of the calls of the utility functions
detectVars == <<lockfiles, stopAt, detected>>

extractVars == <<entries, extracted, packedFiles, destination, extractPc>>

packVars == <<packPc, packCall, userFiles, isolatedPack, packDestination,
              packError, packResult>>

awaitVars == <<opIndex, inFlight, awaiting>>

utilVars == <<detectVars, extractVars, packVars, awaitVars>>

vars == <<pipelineVars, utilVars>>

\* ------------------------------------------------------------ file sets
\* a file is a path (its segments) with its content version
File(path, v) == <<path, v>>

Paths(fileSet) == {f[1] : f \in fileSet}

\* the manifest, when the package has one
Manifest ==
    IF env.manifest = "missing" THEN {} ELSE {File(<<"package.json">>, 0)}

\* files tracked at HEAD of the user's repository
SourceFiles(v) ==
    Manifest \cup {File(<<"index.js">>, v), File(<<"src", "excluded.ts">>, 0),
                   File(<<".gitignore">>, 0)}

\* build output in the working directory, untracked and gitignored
BuildOutput ==
    {File(<<"dist", "nested", "deep.js">>, 0), File(<<"lib", "a.js">>, 0),
     File(<<"lib", "a.map">>, 0), File(<<"lib", "nested", "b.js">>, 0)}

\* the top-level directories the committed .gitignore lists
IgnoredDirs == {"dist", "lib"}

\* the "files" field of package.json: two files, a directory, a glob
filesField ==
    {<<"index.js">>, <<"prepack-created-file.txt">>, <<"dist">>,
     <<"lib", "*.js">>}

\* what the prepack hook writes
HookFiles == {File(<<"prepack-created-file.txt">>, 0)}

\* a working directory with an uncommitted edit of a tracked file
Edited(fileSet) ==
    {f \in fileSet : f[1] # <<"index.js">>} \cup {File(<<"index.js">>, 0)}

IsPrefix(p, q) == Len(p) <= Len(q) /\ SubSeq(q, 1, Len(p)) = p

\* one path segment against one pattern segment
SegmentMatches(pat, seg) ==
    \/ pat = seg
    \/ pat = "*.js" /\ seg \in {"index.js", "deep.js", "a.js", "b.js"}

\* a "files" entry selects the file it names, everything below the
\* directory it names, and what it matches as a glob segment by segment
EntryMatches(entry, path) ==
    \/ IsPrefix(entry, path)
    \/ /\ Len(entry) = Len(path)
       /\ \A i \in 1..Len(entry) : SegmentMatches(entry[i], path[i])

\* the files of the tarball the pack command produces from a directory
Tarball(dir) ==
    {f \in dir : \/ f[1] = <<"package.json">>
                 \/ \E entry \in filesField : EntryMatches(entry, f[1])}

\* ignore rules that hold whatever is on the worktree's disk
Ignored_Repository(disk, path) == path[1] \in IgnoredDirs

\* a path is ignored in a worktree when the .gitignore on its disk lists it
Ignored(disk, path) ==
    File(<<".gitignore">>, 0) \in disk /\ path[1] \in IgnoredDirs

\* git add -A followed by git ls-files: every file on disk not ignored
GitAddAll(disk) == {f \in disk : ~Ignored(disk, f[1])}

\* tree of the i-th commit published before the first run
PreviousTree(i) == {File(<<"package.json">>, 0), File(<<"old.js">>, i)}

\* ------------------------------------------------------ temporary names
Pid(r) == r

\* the name built from the time alone
localTemporaryBranch_NoPid(r) == "git-publish-" \o ToString(stamp[r])

localTemporaryBranch(r) ==
    "git-publish-" \o ToString(stamp[r]) \o "-" \o ToString(Pid(r))

worktreePath(r) == "/tmp/" \o localTemporaryBranch(r)

packTemporaryDirectory(r) == "/tmp/" \o localTemporaryBranch(r) \o "-pack"

\* packPackage's own directory, named from its own read t of Date.now()
isolatedPackDirectory(t, r) ==
    "/tmp/" \o "git-publish-pack-" \o ToString(t) \o "-" \o ToString(Pid(r))

\* --------------------------------------------------------- commit graph
RECURSIVE Ancestors(_)
\* the commit and everything reachable from it by parent links
Ancestors(c) ==
    IF c = NoCommit THEN {} ELSE {c} \cup Ancestors(commits[c].parent)

CommitCount(c) == Cardinality(Ancestors(c))

\* a remote that lets the ref move anywhere
FastForward_Any(old, new) == TRUE

\* git push without --force: the remote ref moves only forward
FastForward(old, new) == old = NoCommit \/ old \in Ancestors(new)

\* the commit HEAD of the run's worktree resolves to
HeadCommit(r) ==
    IF wtHead[r] = "branch" /\ localTemporaryBranch(r) \in DOMAIN localBranches
    THEN localBranches[localTemporaryBranch(r)]
    ELSE NoCommit

HeadTree(r) ==
    IF HeadCommit(r) = NoCommit THEN {} ELSE commits[HeadCommit(r)].tree

RemoveKey(f, k) == [x \in DOMAIN f \ {k} |-> f[x]]

\* ------------------------------------------------------------ preflight
\* the remote flag (default 'origin')
remote == "origin"

\* a subprocess that exits non-zero: simpleSpawn rejects ("~" is no ref name)
Throws == "~"

NotInRepository == "Not in a git repository."

NotClean ==
    "The working tree is not clean. Please commit or stash your changes before publishing."

BranchNameFailed == "Failed to get current branch name"

NoPackageJson == "No package.json found in current working directory."

IsPrivate ==
    "This package is marked as private. Use --force to publish it anyway."

RemoteMissing == "Git remote \"" \o remote \o "\" does not exist"

PreflightMessages ==
    {NotInRepository, NotClean, BranchNameFailed, NoPackageJson, IsPrivate,
     RemoteMissing}

\* a status that lists untracked files too
gitStatusTrackedCwd_Untracked(fileSet) ==
    {f \in fileSet : f \notin SourceFiles(head) /\ f[1][1] \notin IgnoredDirs}

\* git status --porcelain --untracked-files=no in the working directory:
\* the tracked paths whose content is not the content at HEAD
gitStatusTrackedCwd(fileSet) ==
    {f \in fileSet : f[1] \in Paths(SourceFiles(head))
                        /\ f \notin SourceFiles(head)}

\* the message of an earlier release
assertCleanTree_OldMessage ==
    IF ~env.inRepo THEN "Not in a git repository"
    ELSE IF gitStatusTrackedCwd(cwdFiles) # {} THEN NotClean
    ELSE "none"

\* assertCleanTree: the status fails outside a repository, and must be empty
assertCleanTree ==
    IF ~env.inRepo THEN NotInRepository
    ELSE IF gitStatusTrackedCwd(cwdFiles) # {} THEN NotClean
    ELSE "none"

\* git branch --show-current: the branch name, nothing on a detached HEAD;
\* it exits non-zero where git does not know the option
ShowCurrent(e) ==
    IF ~e.showCurrent THEN Throws
    ELSE IF e.head = "branch" THEN "develop" ELSE ""

\* git describe --tags: exits non-zero when no tag describes HEAD
DescribeTags(e) == IF e.head = "tag" THEN "v1.0.0" ELSE Throws

\* getCurrentBranchOrTagName: the fallback runs in the catch of the first
\* command only
getCurrentBranchOrTagName(e) ==
    IF ShowCurrent(e) # Throws THEN ShowCurrent(e) ELSE DescribeTags(e)

\* the package name left out
defaultBranchName_NoPackage(e) == "npm/" \o getCurrentBranchOrTagName(e)

\* let defaultBranchName = `npm/${currentBranch}`, with `-${packageJson.name}`
\* appended when gitSubdirectory is not empty
defaultBranchName(e) ==
    IF e.gitSubdirectory # ""
    THEN "npm/" \o getCurrentBranchOrTagName(e) \o "-" \o e.name
    ELSE "npm/" \o getCurrentBranchOrTagName(e)

\* publishBranch = branch, or the default name when the flag is absent
resolvePublishBranch(r) ==
    IF argv[r].branch # "" THEN argv[r].branch ELSE defaultBranchName(env)

\* a guard that --force does not lift
privateGuard_NoForce(r) ==
    IF env.manifest = "private" THEN IsPrivate ELSE "none"

\* if (packageJson.private && !argv.flags.force) throw
privateGuard(r) ==
    IF env.manifest = "private" /\ ~argv[r].force THEN IsPrivate ELSE "none"

\* the manifest looked for before the repository
PreflightError_ManifestFirst(r) ==
    IF env.manifest = "missing" THEN NoPackageJson
    ELSE IF assertCleanTree # "none" THEN assertCleanTree
    ELSE IF getCurrentBranchOrTagName(env) = Throws THEN BranchNameFailed
    ELSE privateGuard(r)

\* the checks before the publish task, in the order they are awaited: the
\* message of the first that throws, "none" when all pass
PreflightError(r) ==
    IF assertCleanTree # "none" THEN assertCleanTree
    ELSE IF getCurrentBranchOrTagName(env) = Throws THEN BranchNameFailed
    ELSE IF env.manifest = "missing" THEN NoPackageJson
    ELSE privateGuard(r)

\* a run that does not look the remote up
remoteUrlError_Unchecked == "none"

\* git remote get-url remote, the first step inside the publish task
remoteUrlError == IF env.remoteExists THEN "none" ELSE RemoteMissing

\* ------------------------------------------------------- control flow
\* a publish task without the finally block
OnThrow_NoFinally(stage) == "exit"

\* the worktree created inside the try block
OnThrow_AllFinally(stage) == IF stage = "start" THEN "exit" ELSE "cleanup"

\* a stage that is run again when it throws
OnThrow_Retry(stage) == stage

\* where control goes when a stage throws: the preflight and 'Creating
\* worktree' are outside the try block, so the error reaches the top-level
\* catch at once; the later stages are inside it, so the finally block runs
OnThrow(stage) ==
    IF stage \in {"start", "worktree"} THEN "exit" ELSE "cleanup"

\* a flag that is never read
Dry_Ignored(r) == FALSE

\* if (dry) { ...; return; } at the top of every stage
Dry(r) == dry[r]

\* ----------------------------------------------------------------- Init
InitCommits(n) == [i \in 1..n |-> [parent |-> i - 1, tree |-> PreviousTree(i)]]

\* what git remote get-url can print: the scp-like GitHub form, the same
\* without the .git suffix, the https form, a local path
RemoteUrls ==
    {"git@github.com:org/repo.git", "git@github.com:org/repo",
     "https://github.com/org/repo.git", "/tmp/remote-fixture"}

Environments ==
    [inRepo : BOOLEAN,
     head : {"branch", "tag", "detached"},
     showCurrent : BOOLEAN,
     manifest : {"missing", "public", "private"},
     remoteExists : BOOLEAN,
     remoteUrl : RemoteUrls,
     gitSubdirectory : {"", "packages/test-pkg"},
     name : {"test-pkg", "@org/test-pkg"}]

\* the state of a process before its first statement, and of the machine
\* before any process has run
Started ==
    /\ pc = [r \in Runs |-> "start"]
    /\ publishBranch = [r \in Runs |-> ""]
    /\ output = [r \in Runs |-> <<>>]
    /\ userHead =
         (IF env.head = "branch" THEN "refs/heads/develop" ELSE "detached")
    /\ fetchAttempts = [r \in Runs |-> 0]
    /\ stamp = [r \in Runs |-> 0]
    /\ orphan = [r \in Runs |-> FALSE]
    /\ success = [r \in Runs |-> FALSE]
    /\ commitSha = [r \in Runs |-> NoCommit]
    /\ thrown = [r \in Runs |-> "none"]
    /\ warned = [r \in Runs |-> FALSE]
    /\ exitCode = [r \in Runs |-> -1]
    /\ stderr = [r \in Runs |-> "none"]
    /\ wtHead = [r \in Runs |-> "none"]
    /\ wtIndex = [r \in Runs |-> {}]
    /\ wtDisk = [r \in Runs |-> {}]
    /\ gitWorktrees = {}
    /\ localBranches = <<>>
    /\ tmpDirs = {}
    /\ tarball = [r \in Runs |-> {}]
    /\ head = 1

\* no utility function is under study: its inputs are empty
\* detectPackageManager is not called
DetectIdle ==
    /\ lockfiles = <<>>
    /\ stopAt = 0
    /\ detected = ""

\* extractTarball is not called
ExtractIdle ==
    /\ entries = <<>>
    /\ extracted = 0
    /\ packedFiles = <<>>
    /\ destination = <<>>
    /\ extractPc = "idle"

\* packPackage is not called
PackIdle ==
    /\ packPc = "idle"
    /\ packCall = <<>>
    /\ userFiles = {}
    /\ isolatedPack = <<>>
    /\ packDestination = <<>>
    /\ packError = "none"
    /\ packResult = <<>>

\* the awaits of the publish task are not followed
AwaitIdle ==
    /\ opIndex = <<>>
    /\ inFlight = <<>>
    /\ awaiting = <<>>

UtilIdle == DetectIdle /\ ExtractIdle /\ PackIdle /\ AwaitIdle

\* the package at the repository root on branch develop; every preflight
\* check can fail; --force is tried by one process, on a private package
Init ==
    /\ env \in {e \in Environments :
                    /\ e.gitSubdirectory = "" /\ e.name = "test-pkg"
                    /\ e.remoteUrl = "git@github.com:org/repo.git"
                    /\ \/ e.head = "branch" /\ e.showCurrent
                       \/ e.head = "detached" /\ ~e.showCurrent}
    /\ argv \in {a \in [Runs -> [force : BOOLEAN, branch : {""}]] :
                    \A r \in Runs :
                        a[r].force => (r = 1 /\ env.manifest = "private")}
    /\ fresh \in [Runs -> BOOLEAN]
    /\ dry \in [Runs -> BOOLEAN]
    /\ hasHook \in BOOLEAN
    /\ cwdFiles \in {SourceFiles(1) \cup BuildOutput,
                     Edited(SourceFiles(1) \cup BuildOutput)}
    /\ \E n \in 0..MaxInitCommits :
        /\ commits = InitCommits(n)
        /\ remoteBranch = n
    /\ Started
    /\ UtilIdle

\* the inputs of the branch name derivation: HEAD on a branch, detached at a
\* tag or at an untagged commit, a git with or without --show-current, the
\* package at the root or in a subdirectory, a plain or a scoped package
\* name, the branch flag given or not; the runs are dry runs
NameInit ==
    /\ env \in {e \in Environments :
                    /\ e.inRepo /\ e.manifest = "public" /\ e.remoteExists
                    /\ e.remoteUrl = "git@github.com:org/repo.git"}
    /\ argv \in [Runs -> [force : {FALSE}, branch : {"", "custom-branch"}]]
    /\ fresh = [r \in Runs |-> FALSE]
    /\ dry = [r \in Runs |-> TRUE]
    /\ hasHook = FALSE
    /\ cwdFiles = SourceFiles(1) \cup BuildOutput
    /\ commits = InitCommits(0)
    /\ remoteBranch = NoCommit
    /\ Started
    /\ UtilIdle

\* an environment in which every preflight check passes, at the repository
\* root on branch develop
Passing(e) ==
    /\ e.inRepo /\ e.head = "branch" /\ e.showCurrent
    /\ e.manifest = "public" /\ e.remoteExists
    /\ e.gitSubdirectory = "" /\ e.name = "test-pkg"

\* the inputs of the success output: every form of the remote URL, dry and
\* real runs without the fresh flag, a package without hooks
OutputInit ==
    /\ env \in {e \in Environments : Passing(e)}
    /\ argv = [r \in Runs |-> [force |-> FALSE, branch |-> ""]]
    /\ fresh = [r \in Runs |-> FALSE]
    /\ dry \in [Runs -> BOOLEAN]
    /\ hasHook = FALSE
    /\ cwdFiles = SourceFiles(1) \cup BuildOutput
    /\ \E n \in 0..MaxInitCommits :
        /\ commits = InitCommits(n)
        /\ remoteBranch = n
    /\ Started
    /\ UtilIdle

\* real runs that can be interrupted: every preflight check passes
SignalInit ==
    /\ env \in {e \in Environments :
                    Passing(e) /\ e.remoteUrl = "git@github.com:org/repo.git"}
    /\ argv = [r \in Runs |-> [force |-> FALSE, branch |-> ""]]
    /\ fresh \in [Runs -> BOOLEAN]
    /\ dry \in [Runs -> BOOLEAN]
    /\ hasHook = FALSE
    /\ cwdFiles = SourceFiles(1) \cup BuildOutput
    /\ commits = InitCommits(MaxInitCommits)
    /\ remoteBranch = MaxInitCommits
    /\ Started
    /\ UtilIdle

\* -------------------------------------------------------------- actions
\* the user commits the tracked files (a new content of index.js) between
\* or during runs
UserCommit ==
    /\ UNCHANGED utilVars
    /\ env.inRepo
    /\ head < MaxVersion
    /\ head' = head + 1
    /\ cwdFiles' = {f \in cwdFiles : f[1] \notin Paths(SourceFiles(head))}
                        \cup SourceFiles(head + 1)
    /\ UNCHANGED <<pc, fresh, dry, argv, env, output, userHead, fetchAttempts,
                   publishBranch, stamp, orphan,
                   success, commitSha, thrown, warned, exitCode, stderr,
                   wtHead, wtIndex, wtDisk, gitWorktrees, localBranches,
                   tmpDirs, tarball, hasHook, commits, remoteBranch>>

\* the preflight checks, the derivation of publishBranch, then the start of
\* the publish task: the temporary names are built from Date.now() and
\* process.pid and the remote is looked up
StartPublish(r) ==
    /\ UNCHANGED utilVars
    /\ pc[r] = "start"
    /\ IF PreflightError(r) # "none"
       THEN /\ thrown' = [thrown EXCEPT ![r] = PreflightError(r)]
            /\ pc' = [pc EXCEPT ![r] = OnThrow("start")]
            /\ UNCHANGED <<publishBranch, stamp>>
       ELSE \E t \in Times :
            /\ publishBranch' =
                 [publishBranch EXCEPT ![r] = resolvePublishBranch(r)]
            /\ stamp' = [stamp EXCEPT ![r] = t]
            /\ IF remoteUrlError # "none"
               THEN /\ thrown' = [thrown EXCEPT ![r] = remoteUrlError]
                    /\ pc' = [pc EXCEPT ![r] = OnThrow("start")]
               ELSE /\ pc' = [pc EXCEPT ![r] = "worktree"]
                    /\ UNCHANGED thrown
    /\ UNCHANGED <<fresh, dry, argv, env, output, userHead, fetchAttempts,
                   orphan, success, commitSha, warned,
                   exitCode, stderr, wtHead, wtIndex, wtDisk, gitWorktrees,
                   localBranches, tmpDirs, tarball, head, hasHook, cwdFiles,
                   commits, remoteBranch>>

\* task 'Creating worktree': git worktree add --force worktreePath HEAD.
\* It runs before the try block: a failure goes straight to the catch.
CreatingWorkTree(r) ==
    /\ UNCHANGED utilVars
    /\ pc[r] = "worktree"
    /\ IF Dry(r)
       THEN /\ pc' = [pc EXCEPT ![r] = "checkout"]
            /\ UNCHANGED <<thrown, wtHead, wtIndex, wtDisk, gitWorktrees>>
       ELSE \E ok \in BOOLEAN :
            IF ok
            THEN /\ gitWorktrees' = gitWorktrees \cup {worktreePath(r)}
                 /\ wtHead' = [wtHead EXCEPT ![r] = "detached"]
                 /\ wtIndex' = [wtIndex EXCEPT ![r] = SourceFiles(head)]
                 /\ wtDisk' = [wtDisk EXCEPT ![r] = SourceFiles(head)]
                 /\ pc' = [pc EXCEPT ![r] = "checkout"]
                 /\ UNCHANGED thrown
            ELSE /\ thrown' = [thrown EXCEPT ![r] = "worktree"]
                 /\ pc' = [pc EXCEPT ![r] = OnThrow("worktree")]
                 /\ UNCHANGED <<wtHead, wtIndex, wtDisk, gitWorktrees>>
    /\ UNCHANGED <<fresh, dry, argv, env, output, userHead, fetchAttempts,
                   publishBranch, stamp,
                   orphan, success, commitSha, warned,
                   exitCode, stderr, localBranches, tmpDirs, tarball, head,
                   hasHook, cwdFiles, commits, remoteBranch>>

\* a fetch spawned whatever the fresh flag says
FetchAttempted_Always(r) == TRUE

\* if (fresh) orphan = true; else the fetch is spawned
FetchAttempted(r) == ~fresh[r]

\* the fetch attempted whatever the fresh flag says
FetchOutcomes_IgnoreFresh(r) ==
    IF remoteBranch = NoCommit THEN {FALSE} ELSE BOOLEAN

\* outcomes of git fetch --depth=1 remote publishBranch:localTemporaryBranch:
\* it fails when the remote branch is absent and may fail when it exists
FetchOutcomes(r) ==
    IF ~FetchAttempted(r) \/ remoteBranch = NoCommit
    THEN {FALSE} ELSE BOOLEAN

\* git commands of the branch resolution run in the user's directory
CheckoutCwd_Process(r) == "."

\* { cwd: worktreePath } of the checkout --orphan and symbolic-ref commands
CheckoutCwd(r) == worktreePath(r)

\* an index left as the checkout of HEAD filled it
IndexAfterRmCached_Skip(index) == index

\* git rm --cached -r :/ leaves no entry in the index
IndexAfterRmCached(index) == {}

\* the disk left as the checkout of HEAD wrote it
DiskAfterRm_Skip(files) == files

\* fs.readdir, filter out '.git', fs.rm of every other entry
DiskAfterRm(files) == {f \in files : f[1][1] = ".git"}

\* task 'Checking out branch': fetch or orphan decision, then the index and
\* the disk of the worktree are cleared
CheckingOutBranch(r) ==
    /\ UNCHANGED utilVars
    /\ pc[r] = "checkout"
    /\ IF Dry(r)
       THEN /\ pc' = [pc EXCEPT ![r] = "pack"]
            /\ UNCHANGED <<orphan, thrown, wtHead, wtIndex, wtDisk,
                           localBranches, userHead, fetchAttempts>>
       ELSE \E fetched \in FetchOutcomes(r), ok \in BOOLEAN :
            /\ fetchAttempts' = [fetchAttempts EXCEPT ![r] =
                                   IF FetchAttempted(r) THEN @ + 1 ELSE @]
            /\ orphan' = [orphan EXCEPT ![r] = ~fetched]
            /\ localBranches' =
                 IF fetched
                 THEN (localTemporaryBranch(r) :> remoteBranch) @@ localBranches
                 ELSE localBranches
            \* git checkout --orphan refuses a branch name that exists
            /\ (~fetched /\ localTemporaryBranch(r) \in DOMAIN localBranches)
                 => ~ok
            /\ IF ok
               THEN /\ wtHead' = [wtHead EXCEPT ![r] =
                                    IF fetched THEN "branch" ELSE "unborn"]
                    /\ wtIndex' = [wtIndex EXCEPT ![r] = IndexAfterRmCached(@)]
                    /\ wtDisk' = [wtDisk EXCEPT ![r] = DiskAfterRm(@)]
                    /\ userHead' = IF CheckoutCwd(r) = worktreePath(r)
                                   THEN userHead
                                   ELSE "refs/heads/" \o localTemporaryBranch(r)
                    /\ pc' = [pc EXCEPT ![r] = "pack"]
                    /\ UNCHANGED thrown
               ELSE /\ thrown' = [thrown EXCEPT ![r] = "checkout"]
                    /\ pc' = [pc EXCEPT ![r] = OnThrow("checkout")]
                    /\ UNCHANGED <<wtHead, wtIndex, wtDisk, userHead>>
    /\ UNCHANGED <<fresh, dry, argv, env, output,
                   publishBranch, stamp,
                   success, commitSha, warned, exitCode,
                   stderr, gitWorktrees, tmpDirs, tarball, head, hasHook,
                   cwdFiles, commits, remoteBranch>>

\* the directory the pack command runs in: the user's working directory
\* after the prepare/prepack hooks ran there
packCwd == cwdFiles \cup (IF hasHook THEN HookFiles ELSE {})

PackOutcomes == {"ok", "empty", "packFails", "extractFails"}

\* task 'Packing package': mkdir packTemporaryDirectory, run the package
\* manager's pack in packCwd, extract the tarball into the worktree
PackingPackage(r) ==
    /\ UNCHANGED utilVars
    /\ pc[r] = "pack"
    /\ IF Dry(r)
       THEN /\ pc' = [pc EXCEPT ![r] = "commit"]
            /\ UNCHANGED <<thrown, wtDisk, tmpDirs, tarball, cwdFiles>>
       ELSE \E outcome \in PackOutcomes, hooksRan \in BOOLEAN :
            /\ tmpDirs' = tmpDirs \cup {packTemporaryDirectory(r)}
            /\ (outcome # "packFails") => hooksRan
            /\ cwdFiles' = IF hooksRan THEN packCwd ELSE cwdFiles
            /\ tarball' = [tarball EXCEPT ![r] =
                             IF outcome \in {"ok", "extractFails"}
                             THEN Tarball(packCwd) ELSE {}]
            /\ CASE outcome = "ok" ->
                     /\ wtDisk' = [wtDisk EXCEPT ![r] = @ \cup Tarball(packCwd)]
                     /\ pc' = [pc EXCEPT ![r] = "commit"]
                     /\ UNCHANGED thrown
                 [] outcome = "empty" ->
                     /\ pc' = [pc EXCEPT ![r] = "commit"]
                     /\ UNCHANGED <<thrown, wtDisk>>
                 [] outcome = "packFails" ->
                     /\ thrown' = [thrown EXCEPT ![r] = "pack"]
                     /\ pc' = [pc EXCEPT ![r] = OnThrow("pack")]
                     /\ UNCHANGED wtDisk
                 [] outcome = "extractFails" ->
                     /\ thrown' = [thrown EXCEPT ![r] = "extract"]
                     /\ pc' = [pc EXCEPT ![r] = OnThrow("pack")]
                     /\ UNCHANGED wtDisk
    /\ UNCHANGED <<fresh, dry, argv, env, output, userHead, fetchAttempts,
                   publishBranch, stamp,
                   orphan, success, commitSha, warned,
                   exitCode, stderr, wtHead, wtIndex, gitWorktrees,
                   localBranches, head, hasHook, commits, remoteBranch>>

NoPublishFilesFound == "No publish files found"

\* an empty file list let through
NoPublishFiles_Never(fileList) == FALSE

\* if (fileList.length === 0) throw
NoPublishFiles(fileList) == fileList = {}

\* a status check that always reports changes
gitStatusTracked_AlwaysDirty(r, index) == TRUE

\* git status --porcelain --untracked-files=no in the worktree: is the
\* index different from the tree of HEAD
gitStatusTracked(r, index) == HeadTree(r) # index

\* task 'Commiting publish assets': git add -A, the empty file list check,
\* the status check, git commit, then commitSha is read from HEAD
CommitingPublishAssets(r) ==
    /\ UNCHANGED utilVars
    /\ pc[r] = "commit"
    /\ IF Dry(r)
       THEN /\ pc' = [pc EXCEPT ![r] = "push"]
            /\ UNCHANGED <<commitSha, thrown, warned, wtHead, wtIndex,
                           localBranches, commits>>
       ELSE LET fileList == GitAddAll(wtDisk[r]) IN
            /\ wtIndex' = [wtIndex EXCEPT ![r] = fileList]
            /\ IF NoPublishFiles(fileList)
               THEN /\ thrown' = [thrown EXCEPT ![r] = NoPublishFilesFound]
                    /\ pc' = [pc EXCEPT ![r] = OnThrow("commit")]
                    /\ UNCHANGED <<commitSha, warned, wtHead, localBranches,
                                   commits>>
               ELSE IF ~gitStatusTracked(r, fileList)
               THEN /\ warned' = [warned EXCEPT ![r] = TRUE]
                    /\ commitSha' = [commitSha EXCEPT ![r] = HeadCommit(r)]
                    /\ pc' = [pc EXCEPT ![r] = "push"]
                    /\ UNCHANGED <<thrown, wtHead, localBranches, commits>>
               ELSE \E ok \in BOOLEAN :
                    IF ok
                    THEN LET new == Len(commits) + 1 IN
                         /\ new <= MaxCommits
                         /\ commits' = Append(commits,
                                [parent |-> HeadCommit(r), tree |-> fileList])
                         /\ localBranches' =
                              (localTemporaryBranch(r) :> new) @@ localBranches
                         /\ wtHead' = [wtHead EXCEPT ![r] = "branch"]
                         /\ commitSha' = [commitSha EXCEPT ![r] = new]
                         /\ pc' = [pc EXCEPT ![r] = "push"]
                         /\ UNCHANGED <<thrown, warned>>
                    ELSE /\ thrown' = [thrown EXCEPT ![r] = "commit"]
                         /\ pc' = [pc EXCEPT ![r] = OnThrow("commit")]
                         /\ UNCHANGED <<commitSha, warned, wtHead,
                                        localBranches, commits>>
    /\ UNCHANGED <<fresh, dry, argv, env, output, userHead, fetchAttempts,
                   publishBranch, stamp,
                   orphan, success, exitCode, stderr,
                   wtDisk, gitWorktrees, tmpDirs, tarball, head, hasHook,
                   cwdFiles, remoteBranch>>

\* --force on every push
PushForce_Always(r) == TRUE

\* ...(fresh ? ['--force'] : []): the push carries --force
PushForce(r) == fresh[r]

\* every push forced
PushAccepted_AlwaysForce(r) == TRUE

\* does the remote accept git push [--force] HEAD:publishBranch
PushAccepted(r) == PushForce(r) \/ FastForward(remoteBranch, HeadCommit(r))

\* task 'Pushing branch': one git push, forced only with the fresh flag
PushingBranch(r) ==
    /\ UNCHANGED utilVars
    /\ pc[r] = "push"
    /\ IF Dry(r)
       THEN /\ pc' = [pc EXCEPT ![r] = "cleanup"]
            /\ UNCHANGED <<success, thrown, remoteBranch>>
       ELSE \E delivered \in BOOLEAN :
            IF delivered /\ PushAccepted(r)
            THEN /\ remoteBranch' = HeadCommit(r)
                 /\ success' = [success EXCEPT ![r] = TRUE]
                 /\ pc' = [pc EXCEPT ![r] = "cleanup"]
                 /\ UNCHANGED thrown
            ELSE /\ thrown' = [thrown EXCEPT ![r] = "push"]
                 /\ pc' = [pc EXCEPT ![r] = OnThrow("push")]
                 /\ UNCHANGED <<success, remoteBranch>>
    /\ UNCHANGED <<fresh, dry, argv, env, output, userHead, fetchAttempts,
                   publishBranch, stamp,
                   orphan, commitSha, warned, exitCode,
                   stderr, wtHead, wtIndex, wtDisk, gitWorktrees,
                   localBranches, tmpDirs, tarball, head, hasHook, cwdFiles,
                   commits>>

\* task 'Cleaning up' in the finally block: git worktree remove --force,
\* git branch -D, fs.rm of the pack directory, each awaited in turn, so a
\* failing step skips the rest and its error replaces the one in flight
CleaningUp(r) ==
    /\ UNCHANGED utilVars
    /\ pc[r] = "cleanup"
    /\ pc' = [pc EXCEPT ![r] = "exit"]
    /\ IF Dry(r)
       THEN UNCHANGED <<thrown, wtHead, wtIndex, wtDisk, gitWorktrees,
                        localBranches, tmpDirs, tarball>>
       ELSE /\ gitWorktrees' = gitWorktrees \ {worktreePath(r)}
            /\ wtHead' = [wtHead EXCEPT ![r] = "none"]
            /\ wtIndex' = [wtIndex EXCEPT ![r] = {}]
            /\ wtDisk' = [wtDisk EXCEPT ![r] = {}]
            /\ IF localTemporaryBranch(r) \in DOMAIN localBranches
               THEN /\ localBranches' =
                         RemoveKey(localBranches, localTemporaryBranch(r))
                    /\ tmpDirs' = tmpDirs \ {packTemporaryDirectory(r)}
                    /\ tarball' = [tarball EXCEPT ![r] = {}]
                    /\ UNCHANGED thrown
               ELSE /\ thrown' = [thrown EXCEPT ![r] = "cleanup"]
                    /\ UNCHANGED <<localBranches, tmpDirs, tarball>>
    /\ UNCHANGED <<fresh, dry, argv, env, output, userHead, fetchAttempts,
                   publishBranch, stamp,
                   orphan, success, commitSha, warned,
                   exitCode, stderr, head, hasHook, cwdFiles, commits,
                   remoteBranch>>

\* the package manager of the install command
packageManager == "npm"

\* a match that takes every remote URL for the hosting shorthand
parsedGitUrl_Any(url) == "org/repo"

\* remoteUrl.match(/github\.com:(.+)\.git$/): the captured repository, ""
\* when the URL does not match
parsedGitUrl(url) ==
    IF url = "git@github.com:org/repo.git" THEN "org/repo" ELSE ""

\* the title (the text of its link: the branch and the commit) and the two
\* lines of the output set after a successful push
SuccessOutput(r) ==
    <<"Successfully published branch: " \o publishBranch[r]
          \o " (" \o ToString(commitSha[r]) \o ")",
      "Install command",
      packageManager \o " i '" \o parsedGitUrl(env.remoteUrl) \o "#"
          \o publishBranch[r] \o "'">>

\* an exit code that does not tell failure from success
ExitCode_Zero(r) == 0

\* process.exit(1) in the top-level catch, 0 when the promise resolves
ExitCode(r) == IF thrown[r] = "none" THEN 0 ELSE 1

\* the end of the publish task (the success output when the push succeeded
\* and the remote URL is recognized) and the top-level catch:
\* console.error('Error:', error.message); process.exit(1)
Exit(r) ==
    /\ UNCHANGED utilVars
    /\ pc[r] = "exit"
    /\ pc' = [pc EXCEPT ![r] = "done"]
    /\ output' = [output EXCEPT ![r] =
                    IF thrown[r] = "none" /\ success[r]
                          /\ parsedGitUrl(env.remoteUrl) # ""
                    THEN SuccessOutput(r) ELSE @]
    /\ stderr' = [stderr EXCEPT ![r] =
                    IF thrown[r] = "none" THEN "none"
                    ELSE "Error: " \o thrown[r]]
    /\ exitCode' = [exitCode EXCEPT ![r] = ExitCode(r)]
    /\ UNCHANGED <<fresh, dry, argv, env, userHead, fetchAttempts,
                   publishBranch, stamp,
                   orphan, success, commitSha, thrown,
                   warned, wtHead, wtIndex, wtDisk, gitWorktrees,
                   localBranches, tmpDirs, tarball, head, hasHook, cwdFiles,
                   commits, remoteBranch>>

\* the user interrupts the process (SIGINT): no handler is installed, so
\* the process ends at once with the signal's exit status and no statement
\* after the pending await runs, the finally block included
Interrupt(r) ==
    /\ UNCHANGED utilVars
    /\ pc[r] # "done"
    /\ pc' = [pc EXCEPT ![r] = "done"]
    /\ exitCode' = [exitCode EXCEPT ![r] = 130]
    /\ UNCHANGED <<fresh, dry, argv, env, output, userHead, fetchAttempts,
                   publishBranch, stamp, orphan, success, commitSha, thrown,
                   warned, stderr, wtHead, wtIndex, wtDisk, gitWorktrees,
                   localBranches, tmpDirs, tarball, head, hasHook, cwdFiles,
                   commits, remoteBranch>>

Next ==
    \/ UserCommit
    \/ \E r \in Runs :
        \/ StartPublish(r)
        \/ CreatingWorkTree(r)
        \/ CheckingOutBranch(r)
        \/ PackingPackage(r)
        \/ CommitingPublishAssets(r)
        \/ PushingBranch(r)
        \/ CleaningUp(r)
        \/ Exit(r)

Spec == Init /\ [][Next]_vars

\* the publish processes started on the inputs of the name derivation
NameSpec == NameInit /\ [][Next]_vars

\* the publish processes started on the inputs of the success output
OutputSpec == OutputInit /\ [][Next]_vars

SignalNext == Next \/ \E r \in Runs : Interrupt(r)

\* the publish processes with a user who can interrupt them
SignalSpec == SignalInit /\ [][SignalNext]_vars

\* a statement of process r
Run(r) ==
    \/ StartPublish(r)
    \/ CreatingWorkTree(r)
    \/ CheckingOutBranch(r)
    \/ PackingPackage(r)
    \/ CommitingPublishAssets(r)
    \/ PushingBranch(r)
    \/ CleaningUp(r)
    \/ Exit(r)

\* every subprocess and every file system call returns, so a process that
\* can take a step takes one
Fairness == \A r \in Runs : WF_vars(Run(r))

\* every preflight check passes; process 1 is a real or a dry run with or
\* without the fresh flag, process 2 a real run without it
LiveInit ==
    /\ env \in {e \in Environments :
                    Passing(e) /\ e.remoteUrl = "git@github.com:org/repo.git"}
    /\ argv = [r \in Runs |-> [force |-> FALSE, branch |-> ""]]
    /\ fresh \in {f \in [Runs -> BOOLEAN] : ~f[2]}
    /\ dry \in {d \in [Runs -> BOOLEAN] : ~d[2]}
    /\ hasHook = FALSE
    /\ cwdFiles = SourceFiles(1) \cup BuildOutput
    /\ commits = InitCommits(MaxInitCommits)
    /\ remoteBranch = MaxInitCommits
    /\ Started
    /\ UtilIdle

\* the publish processes under that assumption
LiveSpec == LiveInit /\ [][Next]_vars /\ Fairness

\* ---------------------------------------------------- utility functions
\* the publish task at rest while a utility function is studied on its own
PipelineIdle ==
    /\ env \in {e \in Environments :
                    Passing(e) /\ e.remoteUrl = "git@github.com:org/repo.git"}
    /\ argv = [r \in Runs |-> [force |-> FALSE, branch |-> ""]]
    /\ fresh = [r \in Runs |-> FALSE]
    /\ dry = [r \in Runs |-> FALSE]
    /\ hasHook = FALSE
    /\ cwdFiles = SourceFiles(1) \cup BuildOutput
    /\ commits = InitCommits(0)
    /\ remoteBranch = NoCommit
    /\ Started

\* ------------------------------------------------- detectPackageManager
\* directories above the working directory that exist: level 0 is the
\* working directory, level MaxDepth the root of the file system
MaxDepth == 2

Levels == 0..MaxDepth

Lockfiles == {"pnpm-lock.yaml", "yarn.lock", "bun.lockb", "bun.lock"}

RECURSIVE findUpFrom(_, _, _)
\* findUp(name, { cwd, stopAt }): look for the file in the directory, then
\* in its parent, until it is found or the directory is stopAt or the root
\* of the file system; -1 stands for undefined
findUpFrom(name, directory, stop) ==
    IF name \in lockfiles[directory] THEN directory
    ELSE IF directory = stop \/ directory = MaxDepth THEN -1
    ELSE findUpFrom(name, directory + 1, stop)

findUp(name, cwd, stop) == findUpFrom(name, cwd, stop)

\* the manager of the lockfile nearest to the working directory
detectPackageManager_Nearest(cwd, stop) ==
    LET holds == {d \in cwd..stop : lockfiles[d] # {}} IN
    IF holds = {} THEN "npm"
    ELSE LET d == CHOOSE x \in holds : \A y \in holds : x <= y IN
         IF "pnpm-lock.yaml" \in lockfiles[d] THEN "pnpm"
         ELSE IF "yarn.lock" \in lockfiles[d] THEN "yarn"
         ELSE "bun"

detectPackageManager(cwd, stop) ==
    IF findUp("pnpm-lock.yaml", cwd, stop) # -1 THEN "pnpm"
    ELSE IF findUp("yarn.lock", cwd, stop) # -1 THEN "yarn"
    ELSE IF \/ findUp("bun.lockb", cwd, stop) # -1
            \/ findUp("bun.lock", cwd, stop) # -1 THEN "bun"
    ELSE "npm"

\* every placement of lockfiles in the working directory and its ancestors,
\* every ancestor as the repository root
DetectInit ==
    /\ PipelineIdle
    /\ ExtractIdle
    /\ PackIdle
    /\ AwaitIdle
    /\ lockfiles \in [Levels -> SUBSET Lockfiles]
    /\ stopAt \in Levels
    /\ detected = ""

\* the call detectPackageManager(cwd, stopAt)
Detect ==
    /\ detected = ""
    /\ detected' = detectPackageManager(0, stopAt)
    /\ UNCHANGED <<pipelineVars, extractVars, packVars, awaitVars, lockfiles,
                   stopAt>>

DetectNext == Detect

DetectSpec == DetectInit /\ [][DetectNext]_vars

\* ------------------------------------------------------- extractTarball
\* number of entries of a tarball
MaxEntries == 3

\* UTF-16 code units of the characters of the entry names
Code ==
    ("." :> 46) @@ ("/" :> 47) @@ ("a" :> 97) @@ ("b" :> 98) @@ ("c" :> 99)
    @@ ("d" :> 100) @@ ("e" :> 101) @@ ("g" :> 103) @@ ("k" :> 107)
    @@ ("p" :> 112)

\* a name is the sequence of its characters
package == <<"p", "a", "c", "k", "a", "g", "e">>

pkg == <<"p", "k", "g">>

\* the headers a tarball is made of: the files package/a (twice, with two
\* sizes), package/b (empty) and package/d/c, the directory package/d, the
\* file pkg/a under another top-level directory and the file a under none
Headers ==
    {[name |-> package \o <<"/", "a">>, type |-> "file", size |-> 5],
     [name |-> package \o <<"/", "a">>, type |-> "file", size |-> 7],
     [name |-> package \o <<"/", "b">>, type |-> "file", size |-> 0],
     [name |-> package \o <<"/", "d">>, type |-> "directory", size |-> 0],
     [name |-> package \o <<"/", "d", "/", "c">>, type |-> "file", size |-> 3],
     [name |-> pkg \o <<"/", "a">>, type |-> "file", size |-> 5],
     [name |-> <<"a">>, type |-> "file", size |-> 2]}

RECURSIVE split(_)
\* name.split('/')
split(name) ==
    IF \A i \in 1..Len(name) : name[i] # "/" THEN <<name>>
    ELSE LET i == CHOOSE k \in 1..Len(name) :
                     name[k] = "/" /\ \A j \in 1..(k - 1) : name[j] # "/"
         IN <<SubSeq(name, 1, i - 1)>> \o split(SubSeq(name, i + 1, Len(name)))

RECURSIVE join(_)
\* parts.join('/')
join(parts) ==
    IF parts = <<>> THEN <<>>
    ELSE IF Len(parts) = 1 THEN parts[1]
    ELSE parts[1] \o <<"/">> \o join(Tail(parts))

\* the map callback's new header.name: the first component is dropped when
\* it is 'package'
mapName(name) ==
    LET parts == split(name) IN
    join(IF parts[1] = package THEN Tail(parts) ELSE parts)

RECURSIVE lessThan(_, _)
\* a < b on strings: the first differing code unit decides, a proper prefix
\* is smaller
lessThan(a, b) ==
    IF b = <<>> THEN FALSE
    ELSE IF a = <<>> THEN TRUE
    ELSE IF Code[a[1]] # Code[b[1]] THEN Code[a[1]] < Code[b[1]]
    ELSE lessThan(Tail(a), Tail(b))

RECURSIVE insert(_, _)
\* the place of x in a sorted list, after the elements that are not greater
insert(x, list) ==
    IF list = <<>> THEN <<x>>
    ELSE IF lessThan(x.file, list[1].file) THEN <<x>> \o list
    ELSE <<list[1]>> \o insert(x, Tail(list))

RECURSIVE sort(_)
\* files.sort((a, b) => (a.file < b.file ? -1 : (a.file > b.file ? 1 : 0)))
sort(list) ==
    IF list = <<>> THEN <<>>
    ELSE insert(list[Len(list)], sort(SubSeq(list, 1, Len(list) - 1)))

\* every tarball of at most MaxEntries entries, at the start of the stream
ExtractInit ==
    /\ PipelineIdle
    /\ DetectIdle
    /\ PackIdle
    /\ AwaitIdle
    /\ entries \in UNION {[1..n -> Headers] : n \in 0..MaxEntries}
    /\ extracted = 0
    /\ packedFiles = <<>>
    /\ destination = <<>>
    /\ extractPc = "streaming"

\* tar-fs passes the next header to map and writes the entry under the
\* name map left in the header
MapHeader ==
    /\ extractPc = "streaming"
    /\ extracted < Len(entries)
    /\ LET header == entries[extracted + 1]
           name == mapName(header.name)
       IN /\ packedFiles' = IF header.type = "file" /\ name # <<>>
                      THEN Append(packedFiles,
                                  [file |-> name, size |-> header.size])
                      ELSE packedFiles
          /\ destination' = (name :> [type |-> header.type,
                                      size |-> header.size]) @@ destination
    /\ extracted' = extracted + 1
    /\ UNCHANGED <<pipelineVars, detectVars, packVars, awaitVars, entries,
                   extractPc>>

\* the pipeline has ended: the list is sorted and returned
ReturnFiles ==
    /\ extractPc = "streaming"
    /\ extracted = Len(entries)
    /\ packedFiles' = sort(packedFiles)
    /\ extractPc' = "returned"
    /\ UNCHANGED <<pipelineVars, detectVars, packVars, awaitVars, entries, extracted,
                   destination>>

ExtractNext == MapHeader \/ ReturnFiles

ExtractSpec == ExtractInit /\ [][ExtractNext]_vars

\* ---------------------------------------------------------- packPackage
\* the tarballs a pack command can leave in the destination: none, the one
\* of the package, or one per workspace when the package manager is
\* configured to pack every workspace
Produced ==
    {<<>>,
     <<<<"test-pkg-1.0.0", ".tgz">>>>,
     <<<<"other-pkg-1.0.0", ".tgz">>, <<"test-pkg-1.0.0", ".tgz">>>>}

\* what the destination directory holds before the call: it does not
\* exist, it is empty, or it holds a log file or a tarball of an earlier
\* call
DestinationsBefore ==
    {[exists |-> FALSE, entries |-> <<>>],
     [exists |-> TRUE, entries |-> <<>>],
     [exists |-> TRUE, entries |-> <<<<"npm-debug", ".log">>>>],
     [exists |-> TRUE, entries |-> <<<<"test-pkg-0.9.0", ".tgz">>>>]}

\* file.endsWith('.tgz')
endsWithTgz(file) == file[2] = ".tgz"

\* files.find(file => file.endsWith('.tgz')): the first match of the
\* listing, <<>> for undefined
findTarball(listing) ==
    LET matches == {i \in 1..Len(listing) : endsWithTgz(listing[i])} IN
    IF matches = {} THEN <<>>
    ELSE listing[CHOOSE i \in matches : \A j \in matches : i <= j]

NoTarballFound == "No tarball found after pack"

\* the files of node_modules in the user's directory
NodeModules == {File(<<"node_modules", "dep", "index.js">>, 0)}

\* copyDirectory(source, destination, ['node_modules']): every entry but
\* the excluded ones, directories recursively
copyDirectory(source) == {f \in source : f[1][1] # "node_modules"}

\* a throw that leaves the function without running the finally block
OnPackThrow_NoFinally(step) == "threw"

\* where a throw takes the function: the two mkdir calls are before the try
\* block, the copy and the pack command are inside it
OnPackThrow(step) == IF step = "mkdir" THEN "threw" ELSE "finally"

\* const packCwd: the isolated directory (or the package's subdirectory of
\* it), never the user's directory
packPackageCwd == "isolated"

\* the calls of packPackage: a package at the repository root or in a
\* subdirectory, with or without node_modules, with or without a prepack
\* hook, over every state of the destination directory
PackInit ==
    /\ PipelineIdle
    /\ DetectIdle
    /\ ExtractIdle
    /\ AwaitIdle
    /\ packCall \in [gitSubdirectory : {"", "packages/test-pkg"},
                     nodeModules : BOOLEAN,
                     prepack : BOOLEAN]
    /\ userFiles = SourceFiles(1)
                     \cup (IF packCall.nodeModules THEN NodeModules ELSE {})
    /\ packDestination \in DestinationsBefore
    /\ isolatedPack = [exists |-> FALSE, entries |-> {}]
    /\ packError = "none"
    /\ packResult = <<>>
    /\ packPc = "mkdir"

\* fs.mkdir(packDestinationDirectory) and fs.mkdir(isolatedPackDirectory),
\* both recursive and both before the try block
MakeDirectories ==
    /\ packPc = "mkdir"
    /\ \E failsAt \in {"none", "destination", "isolated"} :
        /\ packDestination' =
             IF failsAt = "destination" THEN packDestination
             ELSE [packDestination EXCEPT !.exists = TRUE]
        /\ isolatedPack' =
             IF failsAt = "none" THEN [isolatedPack EXCEPT !.exists = TRUE]
             ELSE isolatedPack
        /\ IF failsAt = "none"
           THEN packPc' = "copy" /\ UNCHANGED packError
           ELSE packPc' = OnPackThrow("mkdir") /\ packError' = "mkdir"
    /\ UNCHANGED <<pipelineVars, detectVars, extractVars, awaitVars, packCall,
                   userFiles, packResult>>

\* copyDirectory of the repository root (monorepo) or of the working
\* directory into the isolated directory; a failing copy leaves what was
\* copied before it
CopyToIsolated ==
    /\ packPc = "copy"
    /\ \/ /\ isolatedPack' =
               [isolatedPack EXCEPT !.entries = copyDirectory(userFiles)]
          /\ packPc' = "symlink"
          /\ UNCHANGED packError
       \/ /\ \E done \in {{}, Manifest} :
               isolatedPack' = [isolatedPack EXCEPT !.entries = done]
          /\ packPc' = OnPackThrow("copy")
          /\ packError' = "copy"
    /\ UNCHANGED <<pipelineVars, detectVars, extractVars, awaitVars, packCall,
                   userFiles, packDestination, packResult>>

\* fs.access and fs.symlink of node_modules: a missing node_modules and a
\* failing symlink are both caught and ignored
SymlinkNodeModules ==
    /\ packPc = "symlink"
    /\ \E linked \in BOOLEAN :
        /\ linked => packCall.nodeModules
        /\ isolatedPack' =
             IF linked
             THEN [isolatedPack EXCEPT
                     !.entries = @ \cup {File(<<"node_modules">>, 0)}]
             ELSE isolatedPack
    /\ packPc' = "pack"
    /\ UNCHANGED <<pipelineVars, detectVars, extractVars, awaitVars, packCall,
                   userFiles, packDestination, packError, packResult>>

\* spawn(packageManager, packArgs, { cwd: packCwd }): the prepack hook
\* writes its output into packCwd, then the tarballs are written into the
\* destination directory; the command can fail before writing a tarball
RunPack ==
    /\ packPc = "pack"
    /\ \E ok \in BOOLEAN, produced \in Produced :
        /\ ~ok => produced = <<>>
        /\ LET written == IF packCall.prepack THEN HookFiles ELSE {} IN
           IF packPackageCwd = "isolated"
           THEN /\ isolatedPack' =
                     [isolatedPack EXCEPT !.entries = @ \cup written]
                /\ UNCHANGED userFiles
           ELSE /\ userFiles' = userFiles \cup written
                /\ UNCHANGED isolatedPack
        /\ packDestination' =
             [packDestination EXCEPT !.entries = @ \o produced]
        /\ IF ok
           THEN packPc' = "finally" /\ UNCHANGED packError
           ELSE packPc' = OnPackThrow("pack") /\ packError' = "pack"
    /\ UNCHANGED <<pipelineVars, detectVars, extractVars, awaitVars, packCall,
                   packResult>>

\* finally: fs.rm(isolatedPackDirectory, { recursive, force }); the error
\* in flight, if any, leaves the function after it
RemoveIsolated ==
    /\ packPc = "finally"
    /\ isolatedPack' = [exists |-> FALSE, entries |-> {}]
    /\ packPc' = IF packError = "none" THEN "find" ELSE "threw"
    /\ UNCHANGED <<pipelineVars, detectVars, extractVars, awaitVars, packCall,
                   userFiles, packDestination, packError, packResult>>

\* fs.readdir(packDestinationDirectory), files.find, the throw when there
\* is no match, the return of the path otherwise
FindTarball ==
    /\ packPc = "find"
    /\ LET tarballFile == findTarball(packDestination.entries) IN
       IF tarballFile = <<>>
       THEN /\ packError' = NoTarballFound
            /\ packPc' = "threw"
            /\ UNCHANGED packResult
       ELSE /\ packResult' = tarballFile
            /\ packPc' = "returned"
            /\ UNCHANGED packError
    /\ UNCHANGED <<pipelineVars, detectVars, extractVars, awaitVars, packCall,
                   userFiles, isolatedPack, packDestination>>

PackNext ==
    \/ MakeDirectories
    \/ CopyToIsolated
    \/ SymlinkNodeModules
    \/ RunPack
    \/ RemoveIsolated
    \/ FindTarball

PackSpec == PackInit /\ [][PackNext]_vars

\* ------------------------------------------- awaits of the publish task
\* number of promises under one Promise.all (entries of the worktree to
\* remove, files whose size is read)
MaxFanOut == 2

\* an operation of the publish task: its stage, what runs it (a git or
\* package manager subprocess, or the file system), how many of it are
\* started at once, whether its rejection is caught where it is awaited and
\* whether the code skips it on some runs
Op(stage, kind, name, fan, caught, optional) ==
    [stage |-> stage, kind |-> kind, name |-> name, fan |-> fan,
     caught |-> caught, optional |-> optional]

\* the operations of a real run in the order of the source: each line is
\* one awaited expression
RealOps(isFresh) ==
    <<Op("worktree", "git", "worktree add", 1, FALSE, FALSE)>>
    \o (IF isFresh THEN <<>>
        ELSE <<Op("checkout", "git", "fetch", 1, TRUE, FALSE)>>)
    \o <<Op("checkout", "git", "checkout --orphan | symbolic-ref", 1,
            FALSE, FALSE),
         Op("checkout", "git", "rm --cached", 1, FALSE, FALSE),
         Op("checkout", "fs", "readdir", 1, FALSE, FALSE),
         Op("checkout", "fs", "rm", MaxFanOut, FALSE, FALSE),
         Op("pack", "fs", "mkdir", 1, FALSE, FALSE),
         Op("pack", "pm", "pack", 1, FALSE, FALSE),
         Op("pack", "fs", "tar.x", 1, FALSE, FALSE),
         Op("commit", "git", "add", 1, FALSE, FALSE),
         Op("commit", "git", "ls-files", 1, FALSE, FALSE),
         Op("commit", "fs", "stat", MaxFanOut, FALSE, FALSE),
         Op("commit", "git", "status", 1, FALSE, FALSE),
         Op("commit", "git", "commit", 1, FALSE, TRUE),
         Op("commit", "git", "rev-parse", 1, TRUE, FALSE),
         Op("push", "git", "push", 1, FALSE, FALSE),
         Op("cleanup", "git", "worktree remove", 1, FALSE, FALSE),
         Op("cleanup", "git", "branch -D", 1, FALSE, FALSE),
         Op("cleanup", "fs", "rm", 1, FALSE, FALSE)>>

\* if (dry) return: a dry run starts none of them
Ops(r) == IF Dry(r) THEN <<>> ELSE RealOps(fresh[r])

\* the position after the last operation
End(r) == Len(Ops(r)) + 1

\* the first operation of the finally block
CleanupStart(r) ==
    CHOOSE i \in 1..Len(Ops(r)) :
        /\ Ops(r)[i].stage = "cleanup"
        /\ \A j \in 1..(i - 1) : Ops(r)[j].stage # "cleanup"

\* where an uncaught rejection of operation i takes the run: out of the
\* task from the worktree creation and from the finally block, into the
\* finally block from the stages inside try
AfterRejection(r, i) ==
    IF Ops(r)[i].stage \in {"worktree", "cleanup"} THEN End(r)
    ELSE CleanupStart(r)

\* the positions the run can continue at after operation i: the next
\* operation, or the one after it when the next one is skipped
AfterFulfilment(r, i) ==
    {i + 1} \cup (IF i + 1 <= Len(Ops(r)) /\ Ops(r)[i + 1].optional
                  THEN {i + 2} ELSE {})

\* the next operation started without waiting for the pending one
Awaited_Never(r) == TRUE

\* await: the run goes on when every promise it waits for has settled
Awaited(r) == awaiting[r] = {}

\* real and dry runs, with and without the fresh flag, before the first
\* operation
AwaitInit ==
    /\ env \in {e \in Environments :
                    Passing(e) /\ e.remoteUrl = "git@github.com:org/repo.git"}
    /\ argv = [r \in Runs |-> [force |-> FALSE, branch |-> ""]]
    /\ fresh \in [Runs -> BOOLEAN]
    /\ dry \in [Runs -> BOOLEAN]
    /\ hasHook = FALSE
    /\ cwdFiles = SourceFiles(1) \cup BuildOutput
    /\ commits = InitCommits(0)
    /\ remoteBranch = NoCommit
    /\ Started
    /\ DetectIdle /\ ExtractIdle /\ PackIdle
    /\ opIndex = [r \in Runs |-> 1]
    /\ inFlight = [r \in Runs |-> {}]
    /\ awaiting = [r \in Runs |-> {}]

\* the run starts its next operation: one subprocess or file system call,
\* or every promise of a Promise.all at once, and waits for what it started
Launch(r) ==
    /\ Awaited(r)
    /\ opIndex[r] <= Len(Ops(r))
    /\ LET started == {<<opIndex[r], k>> : k \in 1..Ops(r)[opIndex[r]].fan}
       IN /\ inFlight' = [inFlight EXCEPT ![r] = @ \cup started]
          /\ awaiting' = [awaiting EXCEPT ![r] = started]
    /\ opIndex' = [opIndex EXCEPT ![r] = @ + 1]
    /\ UNCHANGED <<pipelineVars, detectVars, extractVars, packVars>>

\* an operation in flight settles.  A fulfilled one that the run waits for
\* lets the run go on when it was the last one awaited; a rejected one
\* rejects the awaited expression at once, which is caught (fetch,
\* rev-parse) or takes the run to the finally block or out of the task,
\* while the other promises of a Promise.all stay in flight
Settle(r) ==
    \E i \in inFlight[r], ok \in BOOLEAN :
        /\ inFlight' = [inFlight EXCEPT ![r] = @ \ {i}]
        /\ IF i \notin awaiting[r]
           THEN UNCHANGED <<awaiting, opIndex>>
           ELSE IF ok /\ awaiting[r] # {i}
           THEN /\ awaiting' = [awaiting EXCEPT ![r] = @ \ {i}]
                /\ UNCHANGED opIndex
           ELSE /\ awaiting' = [awaiting EXCEPT ![r] = {}]
                /\ \E next \in (IF ok \/ Ops(r)[i[1]].caught
                                THEN AfterFulfilment(r, i[1])
                                ELSE {AfterRejection(r, i[1])}) :
                     opIndex' = [opIndex EXCEPT ![r] = next]
        /\ UNCHANGED <<pipelineVars, detectVars, extractVars, packVars>>

AwaitNext == \E r \in Runs : Launch(r) \/ Settle(r)

AwaitSpec == AwaitInit /\ [][AwaitNext]_vars

\* ------------------------------------------------------------ properties
\* the step is taken by process r
Steps(r) == pc'[r] # pc[r]

\* the run created its worktree (it got past 'Creating worktree')
WorktreeWasCreated(r) ==
    /\ ~dry[r]
    /\ pc[r] \in {"checkout", "pack", "commit", "push", "cleanup"}
       \/ /\ pc[r] \in {"exit", "done"}
          /\ thrown[r] \notin PreflightMessages \cup {"worktree"}

\* C1: no step of a publish run changes the files of the user's working
\* directory: tracked contents stay as they were and no untracked file
\* appears, whatever the flags and wherever the run fails
C1_WorkingDirectoryUntouched ==
    [][\A r \in Runs : Steps(r) => cwdFiles' = cwdFiles]_vars

\* C2: when a non-dry run that created its worktree has ended, its worktree
\* is unregistered, its temporary branch does not exist and its pack
\* directory is gone
C2_TemporariesRemoved ==
    \A r \in Runs :
        (pc[r] = "done" /\ WorktreeWasCreated(r)) =>
            /\ worktreePath(r) \notin gitWorktrees
            /\ localTemporaryBranch(r) \notin DOMAIN localBranches
            /\ packTemporaryDirectory(r) \notin tmpDirs

\* C3: the cleanup never replaces the failure of an earlier stage: the error
\* in flight when cleanup starts is the error still in flight after it, and
\* that is what the top-level catch prints
C3_FirstFailureReported ==
    [][\A r \in Runs :
          /\ (pc[r] = "cleanup" /\ thrown[r] # "none" /\ Steps(r))
                => thrown'[r] = thrown[r]
          /\ (pc[r] = "exit" /\ Steps(r) /\ thrown[r] # "none")
                => stderr'[r] = "Error: " \o thrown[r]]_vars

\* the step is the successful push of process r
PushSucceeds(r) == pc[r] = "push" /\ success'[r]

\* C4: a push without the fresh flag of a new commit built on a fetched
\* remote tip leaves the remote branch with one commit more than before,
\* the previous remote tip being the parent of the new tip
C4_HistoryPreserved ==
    [][\A r \in Runs :
          (PushSucceeds(r) /\ ~fresh[r] /\ ~orphan[r] /\ ~warned[r]) =>
              /\ remoteBranch # NoCommit
              /\ remoteBranch' = commitSha[r]
              /\ commits[remoteBranch'].parent = remoteBranch
              /\ CommitCount(remoteBranch') = CommitCount(remoteBranch) + 1]_vars

\* a second publish landed on top of a history of at least one commit
C4_Witness ==
    \E r \in Runs :
        /\ pc[r] = "done" /\ exitCode[r] = 0 /\ success[r]
        /\ ~fresh[r] /\ ~orphan[r] /\ ~warned[r]
        /\ remoteBranch = commitSha[r]
        /\ commits[remoteBranch].parent # NoCommit
        /\ CommitCount(remoteBranch) >= 2

\* C5: a successful push with the fresh flag leaves the remote branch with
\* exactly one commit, a root commit, whatever was there before
C5_FreshSingleCommit ==
    [][\A r \in Runs :
          (PushSucceeds(r) /\ fresh[r]) =>
              /\ remoteBranch' = commitSha[r]
              /\ remoteBranch' # NoCommit
              /\ commits[remoteBranch'].parent = NoCommit
              /\ CommitCount(remoteBranch') = 1]_vars

\* a fresh publish replaced a branch that had commits
C5_Witness ==
    \E r \in Runs :
        /\ pc[r] = "done" /\ exitCode[r] = 0 /\ success[r] /\ fresh[r]
        /\ remoteBranch = commitSha[r]
        /\ Len(commits) >= 2
        /\ CommitCount(remoteBranch) = 1

\* C6: a run whose packed content equals the tree of the tip it fetched
\* creates no commit and warns instead of failing; its push of that tip
\* leaves the remote tip where it was and the run exits with code 0
C6_RepublishIsNoOp ==
    [][\A r \in Runs :
          /\ (pc[r] = "commit" /\ Steps(r) /\ ~dry[r]
                /\ wtDisk[r] # {} /\ wtDisk[r] = HeadTree(r)) =>
                 /\ commits' = commits
                 /\ warned'[r]
                 /\ thrown'[r] = "none"
                 /\ commitSha'[r] = HeadCommit(r)
          /\ (pc[r] = "push" /\ warned[r] /\ remoteBranch = commitSha[r]) =>
                 /\ PushAccepted(r)
                 /\ PushSucceeds(r) => remoteBranch' = remoteBranch
          /\ (pc[r] = "exit" /\ Steps(r) /\ warned[r] /\ success[r]) =>
                 exitCode'[r] = 0]_vars

\* one run published a commit, the other then republished the same content
C6_Witness ==
    \E r, q \in Runs :
        /\ r # q
        /\ pc[q] = "done" /\ success[q] /\ ~warned[q]
        /\ pc[r] = "done" /\ success[r] /\ warned[r] /\ exitCode[r] = 0
        /\ commitSha[r] = commitSha[q]
        /\ remoteBranch = commitSha[q]
        /\ Len(commits) = commitSha[q]

\* C7: at a successful push the tree of the new remote tip is exactly the
\* set of files of the tarball the run packed
C7_TreeIsTarball ==
    [][\A r \in Runs :
          PushSucceeds(r) =>
              /\ remoteBranch' = commitSha[r]
              /\ commits[remoteBranch'].tree = tarball[r]]_vars

\* a publish over a previous tip that held a file the tarball does not
C7_Witness ==
    \E r \in Runs :
        /\ pc[r] = "cleanup" /\ success[r] /\ ~orphan[r] /\ ~warned[r]
        /\ remoteBranch = commitSha[r]
        /\ commits[remoteBranch].tree = tarball[r]
        /\ File(<<"old.js">>, 1) \in commits[commits[remoteBranch].parent].tree
        /\ File(<<"old.js">>, 1) \notin commits[remoteBranch].tree
        /\ File(<<"src", "excluded.ts">>, 0) \notin commits[remoteBranch].tree

\* C8: a commit reachable from the remote branch stays reachable from it
\* across every step, except across the push of a run with the fresh flag
C8_PublishedStaysReachable ==
    [][\A c \in 1..Len(commits) :
          (c \in Ancestors(remoteBranch) /\ c \notin Ancestors(remoteBranch'))
              => \E r \in Runs : fresh[r] /\ PushSucceeds(r)]_vars

\* two runs without the fresh flag advanced the branch one after the other
C8_Witness ==
    \E r, q \in Runs :
        /\ r # q /\ ~fresh[r] /\ ~fresh[q] /\ success[r] /\ success[q]
        /\ commitSha[r] # commitSha[q]
        /\ remoteBranch = commitSha[q]
        /\ commitSha[r] \in Ancestors(remoteBranch)
        /\ CommitCount(remoteBranch) >= 3

\* two commits built by different runs on the same fetched tip
BuiltOnSameTip(r, q) ==
    /\ r # q /\ ~dry[r] /\ ~dry[q] /\ ~fresh[r] /\ ~fresh[q]
    /\ commitSha[r] # NoCommit /\ commitSha[q] # NoCommit
    /\ commitSha[r] # commitSha[q]
    /\ commits[commitSha[r]].parent # NoCommit
    /\ commits[commitSha[r]].parent = commits[commitSha[q]].parent

\* C9: when two runs without the fresh flag built different commits on the
\* same fetched tip and one has pushed, the push of the other is rejected:
\* the remote keeps the first commit, the run goes to cleanup once and
\* exits with code 1 reporting the push error
C9_SecondPushRejected ==
    [][\A r, q \in Runs :
          /\ (BuiltOnSameTip(r, q) /\ pc[r] = "push" /\ Steps(r)
                /\ success[q] /\ remoteBranch = commitSha[q]) =>
                 /\ thrown'[r] = "push"
                 /\ ~success'[r]
                 /\ remoteBranch' = remoteBranch
                 /\ pc'[r] = "cleanup"
          /\ (thrown[r] = "push" /\ pc[r] = "cleanup" /\ Steps(r)) =>
                 /\ thrown'[r] = "push"
                 /\ worktreePath(r) \notin gitWorktrees'
                 /\ localTemporaryBranch(r) \notin DOMAIN localBranches'
                 /\ remoteBranch' = remoteBranch
          /\ (thrown[r] = "push" /\ pc[r] = "exit" /\ Steps(r)) =>
                 /\ exitCode'[r] = 1
                 /\ stderr'[r] = "Error: push"
                 /\ remoteBranch' = remoteBranch]_vars

\* the loser of the race has exited with code 1, the winner's commit is
\* the remote tip
C9_Witness ==
    \E r, q \in Runs :
        /\ BuiltOnSameTip(r, q)
        /\ pc[r] = "done" /\ exitCode[r] = 1 /\ stderr[r] = "Error: push"
        /\ ~success[r] /\ success[q]
        /\ remoteBranch = commitSha[q]
        /\ worktreePath(r) \notin gitWorktrees

\* the temporary paths a run can use
TemporaryPaths(r) ==
    {worktreePath(r), packTemporaryDirectory(r)}
        \cup {isolatedPackDirectory(t, r) : t \in Times}

\* the run has built its temporary names and has not ended
Active(r) == pc[r] \notin {"start", "done"} /\ stamp[r] # 0

\* C10: two runs that are active at the same time have different temporary
\* branch names and disjoint temporary paths, and a step of one run leaves
\* the other run's worktree registration, branch and pack directory as
\* they were
C10_NoSharedTemporaries ==
    [][\A r, q \in Runs :
          (r # q /\ Active(r) /\ Active(q)) =>
              /\ localTemporaryBranch(r) # localTemporaryBranch(q)
              /\ TemporaryPaths(r) \cap TemporaryPaths(q) = {}
              /\ Steps(r) =>
                   /\ worktreePath(q) \in gitWorktrees'
                        <=> worktreePath(q) \in gitWorktrees
                   /\ packTemporaryDirectory(q) \in tmpDirs'
                        <=> packTemporaryDirectory(q) \in tmpDirs
                   /\ localTemporaryBranch(q) \in DOMAIN localBranches'
                        <=> localTemporaryBranch(q) \in DOMAIN localBranches
                   /\ localTemporaryBranch(q) \in DOMAIN localBranches =>
                        localBranches'[localTemporaryBranch(q)]
                            = localBranches[localTemporaryBranch(q)]]_vars

\* two runs that read the same Date.now() hold their worktrees at once
C10_Witness ==
    \E r, q \in Runs :
        /\ r # q /\ stamp[r] = stamp[q] /\ stamp[r] # 0
        /\ worktreePath(r) \in gitWorktrees
        /\ worktreePath(q) \in gitWorktrees
        /\ packTemporaryDirectory(r) \in tmpDirs
        /\ packTemporaryDirectory(q) \in tmpDirs
        /\ localTemporaryBranch(q) \in DOMAIN localBranches

\* C11: the push carries the force flag exactly in fresh mode: the push of a
\* run with the fresh flag is forced, so the remote accepts it whatever its
\* tip; the push of a run that fetched the remote branch is never forced, so
\* it moves the remote branch only forward
C11_ForceOnlyWhenFresh ==
    [][\A r \in Runs :
          (pc[r] = "push" /\ ~dry[r]) =>
              /\ fresh[r] => (PushForce(r) /\ PushAccepted(r))
              /\ ~orphan[r] =>
                    /\ ~PushForce(r)
                    /\ PushSucceeds(r) =>
                          FastForward(remoteBranch, remoteBranch')]_vars

\* a fresh run replaced the tip another run had fetched, and the unforced
\* push of that run was rejected
C11_Witness ==
    \E r, q \in Runs :
        /\ fresh[r] /\ success[r] /\ remoteBranch = commitSha[r]
        /\ ~fresh[q] /\ ~orphan[q] /\ ~dry[q] /\ thrown[q] = "push"
        /\ commitSha[q] # NoCommit
        /\ remoteBranch \notin Ancestors(commitSha[q])

\* C12: a run with the dry flag performs no mutating step: none of its steps
\* creates a worktree, fetches, creates a branch or a pack directory,
\* commits or pushes; the local refs and worktrees, the temporary
\* directories, the commit graph, the remote branch and the working
\* directory are after each of its steps what they were before
C12_DryRunChangesNothing ==
    [][\A r \in Runs :
          (dry[r] /\ Steps(r)) =>
              /\ UNCHANGED <<gitWorktrees, localBranches, tmpDirs, commits,
                             remoteBranch, cwdFiles>>
              /\ wtHead'[r] = "none" /\ wtIndex'[r] = {} /\ wtDisk'[r] = {}
              /\ tarball'[r] = {}
              /\ commitSha'[r] = NoCommit
              /\ ~success'[r] /\ ~orphan'[r]]_vars

\* a dry run went through every stage and ended with exit code 0
C12_Witness ==
    \E r \in Runs :
        /\ dry[r] /\ pc[r] = "done" /\ exitCode[r] = 0
        /\ stamp[r] # 0 /\ thrown[r] = "none"
        /\ worktreePath(r) \notin gitWorktrees
        /\ remoteBranch = NoCommit

\* the resources a publish run creates or moves
Resources == <<gitWorktrees, localBranches, tmpDirs, commits, remoteBranch>>

\* the tracked files of the working directory are as they are at HEAD
TrackedAsAtHead ==
    {f \in cwdFiles : f[1] \in Paths(SourceFiles(head))} = SourceFiles(head)

\* C13: inside a repository, a run that starts while a tracked file differs
\* from HEAD fails with the commit-or-stash message and exit code 1 and
\* reaches no stage: no name, worktree, branch, commit or push is made;
\* a run that starts with the tracked files as at HEAD never fails with
\* that message, whatever untracked files are present
C13_DirtyTreeRejected ==
    [][\A r \in Runs :
          /\ (pc[r] = "start" /\ Steps(r) /\ env.inRepo) =>
                /\ ~TrackedAsAtHead =>
                      (thrown'[r] = NotClean /\ pc'[r] = "exit")
                /\ TrackedAsAtHead => thrown'[r] # NotClean
          /\ (thrown'[r] = NotClean /\ Steps(r)) =>
                /\ pc[r] \in {"start", "exit"}
                /\ stamp'[r] = 0
                /\ UNCHANGED Resources
          /\ (thrown[r] = NotClean /\ pc[r] = "exit" /\ Steps(r)) =>
                /\ exitCode'[r] = 1
                /\ stderr'[r] = "Error: " \o NotClean]_vars

\* a run was rejected for an uncommitted edit; after the user committed it
\* the other run passed the check with untracked build output present
C13_Witness ==
    \E r, q \in Runs :
        /\ pc[r] = "done" /\ exitCode[r] = 1
        /\ stderr[r] = "Error: " \o NotClean
        /\ stamp[r] = 0 /\ gitWorktrees = {} /\ localBranches = <<>>
        /\ q # r /\ pc[q] = "worktree" /\ thrown[q] = "none"
        /\ BuildOutput \subseteq cwdFiles

\* C14: outside a Git repository the run fails at its first check: it exits
\* with code 1, stderr is exactly 'Error: Not in a git repository.', and
\* the only steps it takes are that check and the exit
C14_NotInRepository ==
    [][\A r \in Runs :
          (~env.inRepo /\ Steps(r)) =>
              /\ pc[r] \in {"start", "exit"}
              /\ stamp'[r] = 0 /\ publishBranch'[r] = ""
              /\ UNCHANGED Resources
              /\ pc[r] = "start" =>
                    /\ thrown'[r] = "Not in a git repository."
                    /\ pc'[r] = "exit"
              /\ pc[r] = "exit" =>
                    /\ exitCode'[r] = 1
                    /\ stderr'[r] = "Error: Not in a git repository."
                    /\ pc'[r] = "done"]_vars

\* a run outside a repository has ended, with a package.json present or not
C14_Witness ==
    \E r \in Runs :
        /\ ~env.inRepo /\ pc[r] = "done" /\ exitCode[r] = 1
        /\ stderr[r] = "Error: Not in a git repository."
        /\ env.manifest = "missing"
        /\ gitWorktrees = {} /\ tmpDirs = {}

\* the checks that come before the manifest is read pass
RepositoryChecksPass ==
    env.inRepo /\ TrackedAsAtHead /\ getCurrentBranchOrTagName(env) # Throws

\* C15: for a manifest with private: true, a run without the force flag
\* fails at the guard with the message about a private package, before any
\* name, worktree or other resource is made, and exits with code 1; with
\* the force flag the same manifest passes the guard and the run goes on
\* to the publish task
C15_PrivateGuard ==
    [][\A r \in Runs :
          /\ (pc[r] = "start" /\ Steps(r) /\ RepositoryChecksPass
                /\ env.manifest = "private") =>
                /\ ~argv[r].force =>
                      /\ thrown'[r] =
                           "This package is marked as private. Use --force to publish it anyway."
                      /\ pc'[r] = "exit"
                      /\ stamp'[r] = 0
                      /\ UNCHANGED Resources
                /\ argv[r].force =>
                      /\ thrown'[r] # IsPrivate
                      /\ stamp'[r] # 0
                      /\ env.remoteExists => pc'[r] = "worktree"
          /\ (thrown[r] = IsPrivate /\ pc[r] = "exit" /\ Steps(r)) =>
                /\ exitCode'[r] = 1
                /\ stderr'[r] = "Error: " \o IsPrivate
                /\ UNCHANGED Resources]_vars

\* of two runs on a private package the one with --force published and the
\* one without it was refused
C15_Witness ==
    \E r, q \in Runs :
        /\ env.manifest = "private"
        /\ argv[r].force /\ pc[r] = "done" /\ success[r] /\ exitCode[r] = 0
        /\ remoteBranch = commitSha[r]
        /\ ~argv[q].force /\ pc[q] = "done" /\ exitCode[q] = 1
        /\ stderr[q] = "Error: " \o IsPrivate
        /\ stamp[q] = 0

\* the error of the first failing check in the order repository, clean
\* tree, package.json, private guard, remote
FirstFailingCheck(r) ==
    IF ~env.inRepo THEN NotInRepository
    ELSE IF ~TrackedAsAtHead THEN NotClean
    ELSE IF env.manifest = "missing" THEN NoPackageJson
    ELSE IF env.manifest = "private" /\ ~argv[r].force THEN IsPrivate
    ELSE IF ~env.remoteExists THEN RemoteMissing
    ELSE "none"

Derived(r) == stamp[r] # 0

\* C17: with the current branch readable, the target branch without the
\* branch flag is npm/<branch> for a package at the repository root and
\* npm/<branch>-<package name> for a package in a subdirectory (develop and
\* @org/test-pkg give npm/develop-@org/test-pkg); with the branch flag it is
\* the flag's value in both cases
C17_DefaultBranchName ==
    \A r \in Runs :
        Derived(r) =>
            /\ argv[r].branch # "" => publishBranch[r] = argv[r].branch
            /\ (argv[r].branch = "" /\ env.head = "branch") =>
                  /\ env.gitSubdirectory = "" =>
                        publishBranch[r] = "npm/develop"
                  /\ env.gitSubdirectory # "" =>
                        publishBranch[r] = "npm/develop-" \o env.name
                  /\ (env.gitSubdirectory # "" /\ env.name = "@org/test-pkg")
                        => publishBranch[r] = "npm/develop-@org/test-pkg"

\* in a subdirectory one run derived the default name with the scoped
\* package name and the other used its branch flag
C17_Witness ==
    \E r, q \in Runs :
        /\ Derived(r) /\ Derived(q)
        /\ env.gitSubdirectory # "" /\ env.head = "branch"
        /\ argv[r].branch = ""
        /\ publishBranch[r] = "npm/develop-@org/test-pkg"
        /\ argv[q].branch = "custom-branch"
        /\ publishBranch[q] = "custom-branch"

\* the name of what HEAD is at: the branch, or the tag when detached at one
SourceName == IF env.head = "branch" THEN "develop" ELSE "v1.0.0"

\* C18: without the branch flag the target branch is npm/ followed by the
\* current branch name, or by the tag name when HEAD is detached at a tag;
\* when HEAD is neither on a branch nor at a tag the run fails before the
\* publish task instead of deriving a name with an empty source name
C18_BranchOrTagName ==
    \A r \in Runs :
        (argv[r].branch = "" /\ pc[r] # "start") =>
            /\ (Derived(r) /\ env.head \in {"branch", "tag"}) =>
                  publishBranch[r] =
                      "npm/" \o SourceName \o
                          (IF env.gitSubdirectory # ""
                           THEN "-" \o env.name ELSE "")
            /\ env.head = "detached" =>
                  (~Derived(r) /\ thrown[r] = BranchNameFailed)

\* the paths the "files" field selects in a directory of the fixture, plus
\* package.json: index.js, the content of dist, the .js files directly in
\* lib, and the hook's file when it is there
ExpectedPaths(dir) ==
    {<<"package.json">>, <<"index.js">>, <<"dist", "nested", "deep.js">>,
     <<"lib", "a.js">>}
        \cup (Paths(dir) \cap {<<"prepack-created-file.txt">>})

C20_RemoteMissing ==
    [][\A r \in Runs :
          (~env.remoteExists /\ Steps(r)) =>
              /\ pc[r] \in {"start", "exit"}
              /\ UNCHANGED Resources
              /\ (pc[r] = "start" /\ RepositoryChecksPass
                    /\ env.manifest # "missing"
                    /\ (env.manifest = "private" => argv[r].force)) =>
                    /\ thrown'[r] = "Git remote \"origin\" does not exist"
                    /\ pc'[r] = "exit"
              /\ (pc[r] = "exit" /\ thrown[r] = RemoteMissing) =>
                    /\ exitCode'[r] = 1
                    /\ stderr'[r] = "Error: Git remote \"origin\" does not exist"
                    /\ worktreePath(r) \notin gitWorktrees'
                    /\ localTemporaryBranch(r) \notin DOMAIN localBranches'
                    /\ packTemporaryDirectory(r) \notin tmpDirs']_vars

\* a run that had built its temporary names ended on the missing remote
C20_Witness ==
    \E r \in Runs :
        /\ ~env.remoteExists /\ pc[r] = "done" /\ exitCode[r] = 1
        /\ stderr[r] = "Error: " \o RemoteMissing
        /\ stamp[r] # 0 /\ publishBranch[r] = "npm/develop"
        /\ worktreePath(r) \notin gitWorktrees
        /\ packTemporaryDirectory(r) \notin tmpDirs

\* C21: when the worktree holds no file after packing and extraction, the
\* commit stage fails with the no-publish-files error: no commit is made,
\* control goes to the cleanup, which removes the worktree, and the run
\* neither pushes nor moves the remote branch afterwards
C21_NoPublishFiles ==
    [][\A r \in Runs :
          /\ (pc[r] = "commit" /\ ~dry[r] /\ thrown'[r] # thrown[r]
                /\ wtDisk[r] = {}) =>
                /\ thrown'[r] = "No publish files found"
                /\ pc'[r] = "cleanup"
                /\ commits' = commits
                /\ commitSha'[r] = NoCommit
                /\ UNCHANGED <<remoteBranch, localBranches>>
          /\ (pc[r] = "commit" /\ ~dry[r] /\ Steps(r) /\ wtDisk[r] = {}) =>
                thrown'[r] = "No publish files found"
          /\ (thrown[r] = NoPublishFilesFound /\ Steps(r)) =>
                /\ pc[r] \in {"cleanup", "exit"}
                /\ ~success'[r]
                /\ UNCHANGED <<commits, remoteBranch>>
                /\ pc[r] = "cleanup" =>
                      worktreePath(r) \notin gitWorktrees']_vars

\* a run that had fetched the branch found nothing to publish: it ended
\* with exit code 1, its worktree removed, the remote tip where it was
C21_Witness ==
    \E r \in Runs :
        /\ pc[r] = "done" /\ exitCode[r] = 1
        /\ stderr[r] = "Error: No publish files found"
        /\ ~orphan[r] /\ commitSha[r] = NoCommit /\ ~success[r]
        /\ worktreePath(r) \notin gitWorktrees
        /\ remoteBranch # NoCommit /\ Len(commits) = MaxInitCommits

\* the run failed in the stage 'Packing package' and has not ended
PackFailed(r) == thrown[r] \in {"pack", "extract"} /\ pc[r] # "done"

\* C22: when the pack command fails, or its tarball cannot be read or
\* extracted, the run has committed nothing and pushed nothing, control
\* goes to the cleanup, which removes the worktree, and no later step of
\* the run creates a commit or moves the remote branch
C22_PackFailure ==
    [][\A r \in Runs :
          /\ (pc[r] = "pack" /\ thrown'[r] \in {"pack", "extract"}) =>
                /\ pc'[r] = "cleanup"
                /\ commitSha'[r] = NoCommit /\ ~success'[r]
                /\ UNCHANGED <<commits, remoteBranch>>
          /\ (PackFailed(r) /\ Steps(r)) =>
                /\ pc[r] \in {"cleanup", "exit"}
                /\ UNCHANGED <<commits, remoteBranch>>
                /\ commitSha'[r] = NoCommit /\ ~success'[r]
                /\ pc[r] = "cleanup" =>
                      /\ worktreePath(r) \notin gitWorktrees'
                      /\ pc'[r] = "exit"
          /\ (pc[r] \in {"cleanup", "exit"} /\ Steps(r)) =>
                UNCHANGED <<commits, remoteBranch>>]_vars

\* a run whose tarball could not be extracted ended with exit code 1, its
\* worktree removed, while the remote branch still has its earlier tip
C22_Witness ==
    \E r \in Runs :
        /\ pc[r] = "done" /\ exitCode[r] = 1 /\ thrown[r] = "extract"
        /\ commitSha[r] = NoCommit /\ ~success[r]
        /\ worktreePath(r) \notin gitWorktrees
        /\ remoteBranch = MaxInitCommits /\ Len(commits) = MaxInitCommits
        /\ MaxInitCommits > 0

\* C23: a run attempts the push once: the push stage is entered from the
\* commit stage only and left for the cleanup whatever the outcome; an
\* unforced push that is not a fast-forward is rejected; after a rejected
\* push the run leaves the remote branch and the commit graph as they are,
\* removes its worktree, keeps the push error and exits with code 1
C23_PushOnce ==
    [][\A r \in Runs :
          /\ (pc'[r] = "push" /\ Steps(r)) => pc[r] = "commit"
          /\ (pc[r] = "push" /\ (Steps(r) \/ thrown'[r] # thrown[r])) =>
                pc'[r] = "cleanup"
          /\ (pc[r] = "push" /\ Steps(r) /\ ~dry[r] /\ ~fresh[r]
                /\ ~FastForward(remoteBranch, HeadCommit(r))) =>
                thrown'[r] = "push"
          /\ (pc[r] = "push" /\ thrown'[r] = "push") =>
                /\ remoteBranch' = remoteBranch
                /\ ~success'[r]
          /\ (thrown[r] = "push" /\ Steps(r)) =>
                /\ pc[r] \in {"cleanup", "exit"}
                /\ UNCHANGED <<commits, remoteBranch>>
                /\ ~success'[r]
                /\ thrown'[r] = "push"
                /\ pc[r] = "cleanup" =>
                      worktreePath(r) \notin gitWorktrees'
                /\ pc[r] = "exit" =>
                      /\ exitCode'[r] = 1
                      /\ stderr'[r] = "Error: push"]_vars

\* the first publish to a remote without the branch failed at the push: the
\* run made its commit, exited with code 1 and the branch is still absent
C23_Witness ==
    \E r \in Runs :
        /\ pc[r] = "done" /\ exitCode[r] = 1 /\ stderr[r] = "Error: push"
        /\ commitSha[r] # NoCommit /\ ~success[r]
        /\ remoteBranch = NoCommit
        /\ worktreePath(r) \notin gitWorktrees
        /\ localTemporaryBranch(r) \notin DOMAIN localBranches

\* C24: a process that ended printed "Error: " and the message of the
\* failure and exited with code 1 when any stage threw, and exited with
\* code 0 and printed no error otherwise; no stage runs after a failure
\* except the cleanup, and an exit code of 0 on a real run means that the
\* push succeeded
C24_ExitCode ==
    \A r \in Runs :
        /\ thrown[r] # "none" => pc[r] \in {"cleanup", "exit", "done"}
        /\ pc[r] # "done" => exitCode[r] = -1 /\ stderr[r] = "none"
        /\ pc[r] = "done" =>
              /\ exitCode[r] \in {0, 1}
              /\ thrown[r] # "none" =>
                    /\ exitCode[r] = 1
                    /\ stderr[r] = "Error: " \o thrown[r]
              /\ thrown[r] = "none" =>
                    /\ exitCode[r] = 0
                    /\ stderr[r] = "none"
                    /\ ~dry[r] => success[r]

\* one process failed at the commit and exited with code 1 and the message,
\* the other one published and exited with code 0
C24_Witness ==
    \E r, q \in Runs :
        /\ pc[r] = "done" /\ exitCode[r] = 1 /\ stderr[r] = "Error: commit"
        /\ pc[q] = "done" /\ exitCode[q] = 0 /\ success[q] /\ ~dry[q]

\* C25: the success title and the install command are emitted only by a
\* process that ended without an error after its push succeeded, never by a
\* dry run, and only when the remote URL has the form
\* git@github.com:<repository>.git; the command names that repository and
\* the publish branch
C25_SuccessOutput ==
    \A r \in Runs :
        output[r] # <<>> =>
            /\ pc[r] = "done" /\ exitCode[r] = 0
            /\ success[r] /\ thrown[r] = "none" /\ ~dry[r]
            /\ remoteBranch # NoCommit /\ commitSha[r] # NoCommit
            /\ env.remoteUrl = "git@github.com:org/repo.git"
            /\ output[r] =
                 <<"Successfully published branch: " \o publishBranch[r]
                       \o " (" \o ToString(commitSha[r]) \o ")",
                   "Install command",
                   "npm i 'org/repo#" \o publishBranch[r] \o "'">>

\* a process published and printed the install command while the other one
\* failed and printed none
C25_Witness ==
    \E r, q \in Runs :
        /\ pc[r] = "done" /\ output[r] # <<>>
        /\ pc[q] = "done" /\ exitCode[q] = 1 /\ output[q] = <<>>

\* C26: a process that was interrupted after its worktree was created has
\* removed the worktree, the temporary branch and the pack directory by the
\* time it has ended
C26_CleanupOnInterrupt ==
    \A r \in Runs :
        (pc[r] = "done" /\ exitCode[r] = 130) =>
            /\ worktreePath(r) \notin gitWorktrees
            /\ localTemporaryBranch(r) \notin DOMAIN localBranches
            /\ packTemporaryDirectory(r) \notin tmpDirs

\* the stage that may follow each stage
StageOrder ==
    {<<"start", "worktree">>, <<"start", "exit">>,
     <<"worktree", "checkout">>, <<"worktree", "exit">>,
     <<"checkout", "pack">>, <<"checkout", "cleanup">>,
     <<"pack", "commit">>, <<"pack", "cleanup">>,
     <<"commit", "push">>, <<"commit", "cleanup">>,
     <<"push", "cleanup">>, <<"cleanup", "exit">>, <<"exit", "done">>}

\* C27: the stages of a run follow one another in the order worktree,
\* branch resolution, packing, commit, push, cleanup, and a failure only
\* skips ahead; on a real run the packing starts on a worktree whose branch
\* is resolved and whose index and files are cleared, the commit starts
\* when the worktree holds the extracted tarball and nothing else, and the
\* push starts when the commit is read from the head of the temporary branch
C27_StageOrder ==
    [][\A r \in Runs :
          Steps(r) =>
            /\ <<pc[r], pc'[r]>> \in StageOrder
            /\ (pc[r] = "pack" /\ ~dry[r]) =>
                  /\ wtHead[r] \in {"branch", "unborn"}
                  /\ wtHead[r] = "unborn" <=> orphan[r]
                  /\ wtIndex[r] = {} /\ wtDisk[r] = {}
                  /\ tarball[r] = {} /\ commitSha[r] = NoCommit
            /\ (pc[r] = "commit" /\ ~dry[r]) =>
                  /\ wtDisk[r] = tarball[r]
                  /\ packTemporaryDirectory(r) \in tmpDirs
                  /\ commitSha[r] = NoCommit /\ ~success[r]
            /\ (pc[r] = "push" /\ ~dry[r]) =>
                  /\ commitSha[r] # NoCommit
                  /\ commitSha[r] = HeadCommit(r)
                  /\ commits[commitSha[r]].tree = wtDisk[r]
                  /\ ~success[r]]_vars

\* a real run of a second publish went through every stage: fetched branch,
\* new commit on top of it, accepted push, cleanup, exit code 0
C27_Witness ==
    \E r \in Runs :
        /\ pc[r] = "done" /\ exitCode[r] = 0 /\ ~dry[r] /\ ~fresh[r]
        /\ ~orphan[r] /\ success[r] /\ ~warned[r]
        /\ remoteBranch = commitSha[r]
        /\ commits[commitSha[r]].parent # NoCommit
        /\ worktreePath(r) \notin gitWorktrees

\* C28: a run whose worktree creation failed goes straight to the exit: it
\* spawned no fetch, has no temporary branch, no worktree and no pack
\* directory, made no commit and pushed nothing, and it ends with code 1
\* and the error of the worktree creation
C28_WorktreeFailure ==
    \A r \in Runs :
        thrown[r] = "worktree" =>
            /\ pc[r] \in {"exit", "done"}
            /\ ~dry[r]
            /\ fetchAttempts[r] = 0
            /\ localTemporaryBranch(r) \notin DOMAIN localBranches
            /\ worktreePath(r) \notin gitWorktrees
            /\ packTemporaryDirectory(r) \notin tmpDirs
            /\ wtHead[r] = "none" /\ ~orphan[r]
            /\ commitSha[r] = NoCommit /\ ~success[r]
            /\ pc[r] = "done" =>
                  /\ exitCode[r] = 1
                  /\ stderr[r] = "Error: worktree"

\* the worktree creation of a real run failed on a repository whose remote
\* has no publish branch yet: the process ended with code 1 and the remote
\* still has no branch
C28_Witness ==
    \E r \in Runs :
        /\ pc[r] = "done" /\ thrown[r] = "worktree" /\ exitCode[r] = 1
        /\ remoteBranch = NoCommit
        /\ localBranches = <<>>

\* C29: no step of a publish run changes what the HEAD of the user's
\* working directory points to or the commit it resolves to: the branch is
\* not switched, moved or reset, and the temporary branch is checked out in
\* the worktree only
C29_UserHeadKept ==
    [][\A r \in Runs :
          Steps(r) =>
            /\ userHead' = userHead
            /\ head' = head
            /\ userHead # "refs/heads/" \o localTemporaryBranch(r)]_vars

\* a real run checked out the fetched publish branch in its worktree,
\* published and ended while the user is still on branch develop
C29_Witness ==
    \E r \in Runs :
        /\ pc[r] = "done" /\ success[r] /\ ~dry[r] /\ ~orphan[r]
        /\ fetchAttempts[r] = 1
        /\ userHead = "refs/heads/develop"

\* C30: the branch resolution of a real run with the fresh flag spawns no
\* fetch and starts an orphan branch; without the flag it spawns one fetch
\* of the publish branch into the temporary branch, points the worktree's
\* HEAD at that branch when the fetch succeeded and starts an orphan branch
\* when it failed, as it does when the remote has no such branch; no other
\* stage fetches
C30_BranchResolution ==
    [][\A r \in Runs :
          Steps(r) =>
            /\ pc[r] # "checkout" => fetchAttempts'[r] = fetchAttempts[r]
            /\ (pc[r] = "checkout" /\ dry[r]) =>
                  fetchAttempts'[r] = 0 /\ wtHead'[r] = "none"
            /\ (pc[r] = "checkout" /\ ~dry[r]) =>
                  /\ fetchAttempts'[r] = (IF fresh[r] THEN 0 ELSE 1)
                  /\ fresh[r] => orphan'[r]
                  /\ remoteBranch = NoCommit => orphan'[r]
                  /\ ~orphan'[r] =>
                        /\ localTemporaryBranch(r) \in DOMAIN localBranches'
                        /\ localBranches'[localTemporaryBranch(r)]
                             = remoteBranch
                        /\ pc'[r] = "pack" => wtHead'[r] = "branch"
                  /\ orphan'[r] =>
                        /\ localTemporaryBranch(r) \notin DOMAIN localBranches'
                        /\ pc'[r] = "pack" => wtHead'[r] = "unborn"]_vars

\* with the publish branch on the remote, one run with the fresh flag
\* started an orphan branch without fetching and the other one fetched once
\* and continues on the fetched branch
C30_Witness ==
    \E r, q \in Runs :
        /\ ~dry[r] /\ fresh[r] /\ pc[r] = "pack"
        /\ orphan[r] /\ fetchAttempts[r] = 0 /\ wtHead[r] = "unborn"
        /\ ~dry[q] /\ ~fresh[q] /\ pc[q] = "pack"
        /\ ~orphan[q] /\ fetchAttempts[q] = 1 /\ wtHead[q] = "branch"
        /\ remoteBranch # NoCommit

\* C31: when the branch resolution of a real run has finished, on the
\* orphan path as on the repoint path, the index of the publish worktree
\* has no entry, its HEAD refers to the temporary branch (unborn on the
\* orphan path, at the fetched tip otherwise) and its directory holds no
\* entry besides .git
C31_ReadyWorktree ==
    [][\A r \in Runs :
          (pc[r] = "checkout" /\ pc'[r] = "pack" /\ ~dry[r]) =>
            /\ wtIndex'[r] = {}
            /\ {f \in wtDisk'[r] : f[1][1] # ".git"} = {}
            /\ wtHead'[r] = (IF orphan'[r] THEN "unborn" ELSE "branch")
            /\ ~orphan'[r] =>
                  /\ localTemporaryBranch(r) \in DOMAIN localBranches'
                  /\ HeadTree(r)' # {}
            /\ orphan'[r] =>
                  localTemporaryBranch(r) \notin DOMAIN localBranches'
            /\ worktreePath(r) \in gitWorktrees'
            /\ wtIndex[r] # {} /\ wtDisk[r] # {}]_vars

\* both paths finished: one run is on an unborn temporary branch, the other
\* one on the fetched branch, and both worktrees are empty
C31_Witness ==
    \E r, q \in Runs :
        /\ pc[r] = "pack" /\ ~dry[r] /\ orphan[r] /\ ~fresh[r]
        /\ pc[q] = "pack" /\ ~dry[q] /\ ~orphan[q]
        /\ wtIndex[r] = {} /\ wtDisk[r] = {}
        /\ wtIndex[q] = {} /\ wtDisk[q] = {}

\* C32: a real run without the fresh flag that fell back to an orphan
\* branch reaches the push with a parentless commit and pushes it without
\* --force; when the remote has the branch the push is rejected, the run
\* goes to the cleanup with the push error, and the remote branch and the
\* commits reachable from it stay as they were
C32_FetchFailureKeepsRemote ==
    [][\A r \in Runs :
          (pc[r] = "push" /\ Steps(r) /\ ~dry[r] /\ ~fresh[r] /\ orphan[r]) =>
            /\ fetchAttempts[r] = 1
            /\ commitSha[r] # NoCommit
            /\ commits[commitSha[r]].parent = NoCommit
            /\ ~PushForce(r)
            /\ remoteBranch # NoCommit =>
                  /\ thrown'[r] = "push" /\ pc'[r] = "cleanup"
                  /\ ~success'[r]
                  /\ remoteBranch' = remoteBranch
                  /\ Ancestors(remoteBranch)' = Ancestors(remoteBranch)
                  /\ \A c \in Ancestors(remoteBranch) :
                        commits'[c] = commits[c]]_vars

\* the remote had the branch from the start and no run published to it: a
\* run without the fresh flag fetched once, fell back to an orphan branch,
\* made its commit and ended with the push error
C32_Witness ==
    \E r \in Runs :
        /\ pc[r] = "done" /\ ~dry[r] /\ ~fresh[r] /\ orphan[r]
        /\ fetchAttempts[r] = 1 /\ commitSha[r] # NoCommit
        /\ stderr[r] = "Error: push" /\ exitCode[r] = 1
        /\ remoteBranch # NoCommit /\ remoteBranch <= MaxInitCommits
        /\ \A q \in Runs : ~success[q]

\* the lockfile is in the working directory or in one of its ancestors up
\* to the repository root
LockfileWithin(name) == \E d \in 0..stopAt : name \in lockfiles[d]

C35_ManifestStrictlySorted ==
    extractPc = "returned" =>
        \A i, j \in 1..Len(packedFiles) :
            i < j => lessThan(packedFiles[i].file, packedFiles[j].file)

\* every entry of the tarball lies under one and the same top-level
\* directory
SingleTopLevel ==
    /\ entries # <<>>
    /\ \A i \in 1..Len(entries) :
          /\ Len(split(entries[i].name)) >= 2
          /\ split(entries[i].name)[1] = split(entries[1].name)[1]

\* the name without its first component
TopLevelRemoved(name) == join(Tail(split(name)))

\* C36: for a tarball with a single top-level directory, the list returned
\* holds one record for every regular-file entry and none for a directory
\* entry, each with the entry's path without the top-level component and
\* the entry's declared size, and every entry is written into the
\* destination under its path without the top-level component
C36_ExtractRecordsStripped ==
    (extractPc = "returned" /\ SingleTopLevel) =>
        LET fileEntries == {i \in 1..Len(entries) : entries[i].type = "file"}
        IN
        /\ Len(packedFiles) = Cardinality(fileEntries)
        /\ {packedFiles[k] : k \in 1..Len(packedFiles)} =
             {[file |-> TopLevelRemoved(entries[i].name),
               size |-> entries[i].size] : i \in fileEntries}
        /\ DOMAIN destination =
             {TopLevelRemoved(entries[i].name) : i \in 1..Len(entries)}

\* the tarballs in the destination directory
TarballsInDestination ==
    {i \in 1..Len(packDestination.entries) :
        endsWithTgz(packDestination.entries[i])}

\* C33: packPackage returns a tarball only when the destination directory
\* holds exactly one tarball after packing
C33_ExactlyOneTarball ==
    packPc = "returned" => Cardinality(TarballsInDestination) = 1

\* C39: once packPackage is past its finally block, and when it has
\* returned or thrown, the isolated pack directory does not exist, whether
\* the copy failed, the symlink failed, the pack command failed or all of
\* them succeeded; the files of the user's directory are the ones it had
\* at the call; the destination directory exists once its mkdir succeeded,
\* and the tarball returned is one of its entries
C39_IsolatedDirectoryRemoved ==
    /\ packPc \in {"find", "returned", "threw"} =>
          /\ ~isolatedPack.exists
          /\ isolatedPack.entries = {}
    /\ packPc # "idle" =>
          userFiles = SourceFiles(1)
                        \cup (IF packCall.nodeModules THEN NodeModules ELSE {})
    /\ (packPc \in {"returned", "threw"} /\ packError # "mkdir") =>
          packDestination.exists
    /\ packPc = "returned" =>
          /\ packError = "none"
          /\ \E i \in 1..Len(packDestination.entries) :
                packDestination.entries[i] = packResult
    /\ packPc = "threw" => packError # "none" /\ packResult = <<>>

\* the pack command of a monorepo package with a prepack hook failed after
\* the copy and the symlink: the call has thrown, the isolated directory is
\* gone and the destination directory is there
C39_Witness ==
    /\ packPc = "threw" /\ packError = "pack"
    /\ packCall.prepack /\ packCall.nodeModules
    /\ packCall.gitSubdirectory # ""
    /\ ~isolatedPack.exists /\ packDestination.exists

\* the operations of the run in flight that are subprocesses
Subprocesses(r) ==
    {i \in inFlight[r] : Ops(r)[i[1]].kind \in {"git", "pm"}}

\* the operation is one promise of a Promise.all over fs.rm or fs.stat
FanOut(r, i) ==
    /\ Ops(r)[i[1]].kind = "fs"
    /\ Ops(r)[i[1]].name \in {"rm", "stat"}
    /\ Ops(r)[i[1]].fan > 1

\* C37: a run has at most one git or package manager subprocess in flight,
\* and of any two operations in flight at the same time at least one is a
\* file removal in the worktree or a size read started by a Promise.all
C37_OneSubprocessInFlight ==
    \A r \in Runs :
        /\ Cardinality(Subprocesses(r)) <= 1
        /\ \A i, j \in inFlight[r] :
              i # j => FanOut(r, i) \/ FanOut(r, j)
        /\ awaiting[r] \subseteq inFlight[r]

\* a removal of the Promise.all was rejected, so the run went to the
\* finally block: git worktree remove is in flight while another removal of
\* the worktree's entries is still running
C37_Witness ==
    \E r \in Runs :
        \E i, j \in inFlight[r] :
            /\ Ops(r)[i[1]].name = "worktree remove"
            /\ FanOut(r, j) /\ Ops(r)[j[1]].name = "rm"
            /\ awaiting[r] = {i}

\* C38: when every call returns, every process ends with exit code 0 or 1,
\* and a real run that created its worktree gets through the cleanup stage
\* to the exit, with its worktree removed, whichever stage failed
C38_Termination ==
    \A r \in Runs :
        /\ <>(pc[r] = "done" /\ exitCode[r] \in {0, 1})
        /\ (pc[r] = "checkout" /\ ~dry[r]) ~>
              (pc[r] = "exit" /\ worktreePath(r) \notin gitWorktrees)

\* a real run whose branch resolution failed went through the cleanup and
\* ended with exit code 1, its worktree removed
C38_Witness ==
    \E r \in Runs :
        /\ pc[r] = "done" /\ ~dry[r] /\ exitCode[r] = 1
        /\ thrown[r] \in {"checkout", "cleanup"}
        /\ fetchAttempts[r] = 1
        /\ worktreePath(r) \notin gitWorktrees

====
